---- MODULE Spec2Model ----
(***************************************************************************)
(* Model of the AI review core of the GitLab merge-request review          *)
(* assistant: the diff line-number annotator (src/src/ai/reviewer.py),     *)
(* the diff viewer's line table (src/src/ui/diff_viewer.py), the per-file  *)
(* review loop of OpenAIReviewer, the single-call OllamaReviewer, the     *)
(* score formula, the review tasks of the web API                          *)
(* (src/server/api/ai.py) and the publishing of a comment to GitLab        *)
(* (src/src/ui/main_window.py, src/src/gitlab/client.py).                  *)
(***************************************************************************)
EXTENDS Integers, Sequences, FiniteSets, TLC

VARIABLES
    provider,          \* AIReviewer.provider: "openai" or "ollama"
    quick_mode,        \* the quick_mode argument of review_merge_request
    mr,                \* the mr argument: title and branches of the merge request
    total_usage,       \* total_tokens of the TokenUsage summed over the calls
    diff_files,        \* the diff_files argument of review_merge_request
    pc,                \* position of review_merge_request: idle, running, done, raised
    file_idx,          \* 1-based position of the for loop over diff_files
    all_file_reviews,  \* dict display path -> list of review dicts
    all_file_review_keys,  \* the keys of that dict in insertion order
    all_issues,        \* list of formatted critical issues
    all_warnings,      \* list of formatted warnings
    all_suggestions,   \* list of formatted suggestions
    calls,             \* log of backend calls: file index and what the backend did
    result,            \* the AIReviewResult returned, NoResult before
    exception,         \* kind of the exception that left review_merge_request
    diff,              \* diff text given to the annotator and the viewer, as lines
    annotated,         \* outcome of _annotate_diff_with_line_numbers(diff)
    line_info,         \* CodeDiffViewer.line_info after load_diff_file(diff)
    issues,            \* argument of _calculate_score
    warnings,          \* argument of _calculate_score
    suggestions,       \* len(all_suggestions) where _calculate_score is called
    score,             \* value returned by _calculate_score, None before the call
    review_tasks,      \* server/api/ai.py _review_tasks: task id -> task entry
    jobs,              \* the background jobs _run_review, each with its own locals
    polled,            \* what get_review_status answered last
    comment,           \* the comment handed to MainWindow._on_publish_comment
    requests,          \* the notes and discussions the client asked GitLab to create
    published,         \* how _on_publish_comment ended
    ui_thread,         \* the GUI thread: in its event loop, or inside QThread.wait()
    waiting_handler,   \* the review handler suspended in QThread.wait(), if any
    ai_review_thread,  \* MainWindow.ai_review_thread: state of the current QThread
    ai_review_worker,  \* MainWindow.ai_review_worker: the current AIReviewWorker
    ui_events,         \* worker signals queued for the GUI thread's event loop
    ai_review_btn,     \* CommentPanel.ai_review_btn is enabled
    ai_review_file_btn,\* DiffViewerPanel.ai_review_file_btn is enabled
    outcomes,          \* review outcomes the GUI thread has handled, in order
    api_failure,       \* the exception raised inside _call_api's try block
    api_raised,        \* the exception class _call_api raises for it
    local_comments,    \* CommentPanel.local_comments: the pending comments
    editing_index,     \* CommentPanel._editing_index
    editing_comment,   \* the comment object loaded into the editor by the last selection
    created,           \* number of ReviewComment objects the panel has created
    publish_failed,    \* comments GitLab refused during the last publish action
    cache_file,        \* contents of recent_projects.json
    now,               \* datetime.now(), as a serial number
    cache_call         \* the last ProjectCache call and what it returned

review_vars == <<provider, quick_mode, mr, total_usage, diff_files, pc, file_idx,
                 all_file_reviews, all_file_review_keys, all_issues, all_warnings,
                 all_suggestions, calls, result, exception>>
diff_vars == <<diff, annotated, line_info>>
score_vars == <<issues, warnings, suggestions, score>>
web_vars == <<review_tasks, jobs, polled>>
publish_vars == <<comment, requests, published>>
gui_vars == <<ui_thread, waiting_handler, ai_review_thread, ai_review_worker,
              ui_events, ai_review_btn, ai_review_file_btn, outcomes>>
api_vars == <<api_failure, api_raised>>
panel_vars == <<local_comments, editing_index, editing_comment, created, publish_failed>>
cache_vars == <<cache_file, now, cache_call>>
extra_vars == <<gui_vars, api_vars, panel_vars, cache_vars>>
core_vars == <<review_vars, diff_vars, score_vars, web_vars, publish_vars>>
vars == <<provider, quick_mode, mr, total_usage, diff_files, pc, file_idx,
          all_file_reviews, all_file_review_keys, all_issues, all_warnings,
          all_suggestions, calls, result, exception,
          diff, annotated, line_info, issues, warnings, suggestions, score,
          review_tasks, jobs, polled, comment, requests, published,
          ui_thread, waiting_handler, ai_review_thread, ai_review_worker,
          ui_events, ai_review_btn, ai_review_file_btn, outcomes,
          api_failure, api_raised,
          local_comments, editing_index, editing_comment, created, publish_failed,
          cache_file, now, cache_call>>

(***************************************************************************)
(* Bounds of the model.                                                    *)
(***************************************************************************)
MaxFiles == 3
MaxLines == 4
MaxCount == 20

(***************************************************************************)
(* Python values that can be None or an int.                               *)
(***************************************************************************)
None == [none |-> TRUE, v |-> 0]
Int_(k) == [none |-> FALSE, v |-> k]

(***************************************************************************)
(* Diff text.  A line is its characters plus the outcome of matching the   *)
(* hunk-header regular expression on it (ok, group 1, group 2).            *)
(***************************************************************************)
NoMatch == [ok |-> FALSE, old_start |-> 0, new_start |-> 0]
TextLine(chars) == [chars |-> chars, hunk_match |-> NoMatch]
HunkLine(a, c) ==
    [chars |-> <<"@", "@">>, hunk_match |-> [ok |-> TRUE, old_start |-> a, new_start |-> c]]

HunkStarts == {<<10, 10>>, <<0, 1>>, <<3, 7>>}

AdditionLine == TextLine(<<"+", "x">>)
DeletionLine == TextLine(<<"-", "x">>)
ContextLine == TextLine(<<" ", "x">>)
NewPathLine == TextLine(<<"+", "+", "+">>)
OldPathLine == TextLine(<<"-", "-", "-">>)
EmptyLine == TextLine(<<>>)
NoNewlineLine == TextLine(<<"\\", " ">>)
BadHunkLine == TextLine(<<"@", "@">>)

Lines ==
    {HunkLine(h[1], h[2]) : h \in HunkStarts}
        \cup {AdditionLine, DeletionLine, ContextLine, NewPathLine, OldPathLine,
              EmptyLine, NoNewlineLine, BadHunkLine}

Diffs == UNION {[1..n -> Lines] : n \in 1..MaxLines}

startswith(chars, prefix) ==
    /\ Len(chars) >= Len(prefix)
    /\ SubSeq(chars, 1, Len(prefix)) = prefix

IsAddition(line) ==
    startswith(line.chars, <<"+">>) /\ ~startswith(line.chars, <<"+", "+", "+">>)
IsDeletion(line) ==
    startswith(line.chars, <<"-">>) /\ ~startswith(line.chars, <<"-", "-", "-">>)

(***************************************************************************)
(* OpenAIReviewer._annotate_diff_with_line_numbers.  The result is the     *)
(* list of emitted lines, or raised = TRUE when `None += 1` is evaluated   *)
(* (TypeError).  An emitted line carries the two bracket displays, "-"     *)
(* being dash = TRUE; lines emitted as they are have annotated = FALSE.    *)
(***************************************************************************)
Dash == [dash |-> TRUE, n |-> 0]
Num(k) == [dash |-> FALSE, n |-> k]
Plain(line) == [annotated |-> FALSE, old |-> Dash, new |-> Dash, line |-> line]
Marked(old, new, line) == [annotated |-> TRUE, old |-> old, new |-> new, line |-> line]

\* old_line = old_start - 1, new_line = new_start - 1 at a hunk header.
\* Variant: the counter is set to the hunk's start itself.
hunk_start_counter_no_offset(start) == Int_(start)
\* Variant: the counter restarts from zero whatever the header says.
hunk_start_counter_zero(start) == Int_(0)

hunk_start_counter(start) == Int_(start - 1)

RECURSIVE AnnotateFrom(_, _, _, _, _)
AnnotateFrom(lines, k, old_line, new_line, out) ==
    IF k > Len(lines)
    THEN [raised |-> FALSE, lines |-> out, old_line |-> old_line, new_line |-> new_line]
    ELSE
        LET line == lines[k] IN
        IF line.hunk_match.ok
        THEN AnnotateFrom(lines, k + 1,
                          hunk_start_counter(line.hunk_match.old_start),
                          hunk_start_counter(line.hunk_match.new_start),
                          Append(out, Plain(line)))
        ELSE IF IsAddition(line)
        THEN IF new_line.none
             THEN [raised |-> TRUE, lines |-> out, old_line |-> old_line, new_line |-> new_line]
             ELSE AnnotateFrom(lines, k + 1, old_line, Int_(new_line.v + 1),
                               Append(out, Marked(Dash, Num(new_line.v + 1), line)))
        ELSE IF IsDeletion(line)
        THEN IF old_line.none
             THEN [raised |-> TRUE, lines |-> out, old_line |-> old_line, new_line |-> new_line]
             ELSE AnnotateFrom(lines, k + 1, Int_(old_line.v + 1), new_line,
                               Append(out, Marked(Num(old_line.v + 1), Dash, line)))
        ELSE IF startswith(line.chars, <<" ">>)
        THEN IF old_line.none \/ new_line.none
             THEN [raised |-> TRUE, lines |-> out, old_line |-> old_line, new_line |-> new_line]
             ELSE AnnotateFrom(lines, k + 1, Int_(old_line.v + 1), Int_(new_line.v + 1),
                               Append(out, Marked(Num(old_line.v + 1), Num(new_line.v + 1), line)))
        ELSE AnnotateFrom(lines, k + 1, old_line, new_line, Append(out, Plain(line)))

annotate_diff_with_line_numbers(diff_content) ==
    AnnotateFrom(diff_content, 1, None, None, <<>>)

(***************************************************************************)
(* CodeDiffViewer.load_diff_file: the line_info table, one entry           *)
(* (old, new, line_type) per displayed line.                               *)
(***************************************************************************)
RECURSIVE LoadFrom(_, _, _, _, _)
LoadFrom(lines, k, old_line_num, new_line_num, info) ==
    IF k > Len(lines)
    THEN info
    ELSE
        LET line == lines[k] IN
        IF startswith(line.chars, <<"@", "@">>)
        THEN LET o == IF line.hunk_match.ok THEN line.hunk_match.old_start - 1 ELSE old_line_num
                 n == IF line.hunk_match.ok THEN line.hunk_match.new_start - 1 ELSE new_line_num
             IN LoadFrom(lines, k + 1, o, n,
                         Append(info, [old |-> None, new |-> None, line_type |-> "header"]))
        ELSE IF IsAddition(line)
        THEN LoadFrom(lines, k + 1, old_line_num, new_line_num + 1,
                      Append(info, [old |-> None, new |-> Int_(new_line_num + 1),
                                    line_type |-> "addition"]))
        ELSE IF IsDeletion(line)
        THEN LoadFrom(lines, k + 1, old_line_num + 1, new_line_num,
                      Append(info, [old |-> Int_(old_line_num + 1), new |-> None,
                                    line_type |-> "deletion"]))
        ELSE LoadFrom(lines, k + 1, old_line_num + 1, new_line_num + 1,
                      Append(info, [old |-> Int_(old_line_num + 1),
                                    new |-> Int_(new_line_num + 1),
                                    line_type |-> "context"]))

load_diff_file(diff_content) == LoadFrom(diff_content, 1, 0, 0, <<>>)

(***************************************************************************)
(* Values read from the model's JSON: a key that is absent ("missing"),    *)
(* null ("none"), an integer or a string.  dict.get(key, default) gives    *)
(* the default only when the key is absent.                                *)
(***************************************************************************)
Missing == [t |-> "missing", n |-> 0, s |-> ""]
PyNone == [t |-> "none", n |-> 0, s |-> ""]
PyInt(k) == [t |-> "int", n |-> k, s |-> ""]
PyStr(x) == [t |-> "str", n |-> 0, s |-> x]

dict_get(value, default) == IF value.t = "missing" THEN default ELSE value

truthy(value) ==
    \/ value.t = "int" /\ value.n # 0
    \/ value.t = "str" /\ value.s # ""

(***************************************************************************)
(* DiffFile and the files a merge request can hold.  ScenarioDiff is the   *)
(* diff "@@ -10,2 +10,4 @@\n function foo() {\n-  return 1;\n+  const x   *)
(* = 1;\n+  return x;\n }\n"; HeaderlessDiff has a '+' line and no hunk     *)
(* header.                                                                 *)
(***************************************************************************)
ScenarioDiff ==
    <<HunkLine(10, 10), ContextLine, DeletionLine, AdditionLine, AdditionLine,
      ContextLine, EmptyLine>>
HeaderlessDiff == <<AdditionLine>>
FileDiffs == {ScenarioDiff, HeaderlessDiff}

PathNames == <<"a.py", "b.py", "c.py", "d.py", "e.py">>

DiffFile(path, diff_content) ==
    [old_path |-> path, new_path |-> path, new_file |-> FALSE, renamed_file |-> FALSE,
     deleted_file |-> FALSE, diff |-> diff_content]

FileLists ==
    UNION {{[k \in 1..n |-> DiffFile(PathNames[k], d[k])] : d \in [1..n -> FileDiffs]}
           : n \in 0..MaxFiles}

get_display_path(f) ==
    IF f.new_file THEN f.new_path
    ELSE IF f.deleted_file THEN f.old_path
    ELSE IF f.renamed_file THEN f.old_path \o " -> " \o f.new_path
    ELSE IF f.new_path # "" THEN f.new_path ELSE f.old_path

(***************************************************************************)
(* What the backend does on one call: it raises one of the exception       *)
(* kinds of _call_api, or returns text.  Text is described by what         *)
(* json.loads makes of it: invalid JSON, a JSON array, or a JSON object    *)
(* whose "reviews" member is absent, null or a list of entries.            *)
(***************************************************************************)
FatalErrors == {"AIAuthError", "AIQuotaError", "AIModelNotFoundError", "AIConnectionError"}

Entry(line_number, severity, description) ==
    [is_dict |-> TRUE, line_number |-> line_number, severity |-> severity,
     description |-> description]
NotADict == [is_dict |-> FALSE, line_number |-> Missing, severity |-> Missing,
             description |-> Missing]

EntryCritical11 == Entry(PyInt(11), PyStr("critical"), PyStr("unused var"))
EntryCritical12 == Entry(PyInt(12), PyStr("critical"), PyStr("wrong result"))
EntryWarning99 == Entry(PyInt(99), PyStr("warning"), PyStr("no such line"))
EntrySuggestion == Entry(Missing, PyStr("suggestion"), PyStr("rename"))
EntryOddLine == Entry(PyStr("NEW:11"), PyStr("blocker"), PyStr("odd"))
EntryBare == Entry(PyInt(13), Missing, Missing)

NoText == [json |-> "none", reviews_t |-> "missing", items |-> <<>>]
InvalidJson == [json |-> "invalid", reviews_t |-> "missing", items |-> <<>>]
JsonArray == [json |-> "array", reviews_t |-> "missing", items |-> <<>>]
JsonObject(reviews_t, items) == [json |-> "object", reviews_t |-> reviews_t, items |-> items]

Responses ==
    {InvalidJson, JsonArray,
     JsonObject("missing", <<>>),
     JsonObject("null", <<>>),
     JsonObject("list", <<>>),
     JsonObject("list", <<EntryCritical11>>),
     JsonObject("list", <<EntryCritical11, EntryWarning99>>),
     JsonObject("list", <<EntryCritical11, EntryCritical12>>),
     JsonObject("list", <<EntrySuggestion>>),
     JsonObject("list", <<EntryOddLine, EntryBare>>),
     JsonObject("list", <<EntryCritical11, NotADict>>)}

Raises(kind) == [kind |-> kind, text |-> NoText]
Returns(text) == [kind |-> "text", text |-> text]

OpenAIOutcomes ==
    {Raises(k) : k \in FatalErrors \cup {"AIException"}} \cup {Returns(t) : t \in Responses}
OllamaOutcomes ==
    {Raises("AIConnectionError"), Raises("AIException"), Returns(InvalidJson)}

(***************************************************************************)
(* OpenAIReviewer._parse_detailed_file_review.  raised = TRUE stands for   *)
(* an exception other than JSONDecodeError leaving the function.           *)
(***************************************************************************)
\* Variant: the line number returned by the model is not kept.
ParsedReview_without_line(review) ==
    [line_number |-> PyNone,
     severity |-> dict_get(review.severity, PyStr("suggestion")),
     description |-> dict_get(review.description, PyStr(""))]

ParsedReview(review) ==
    [line_number |-> dict_get(review.line_number, PyNone),
     severity |-> dict_get(review.severity, PyStr("suggestion")),
     description |-> dict_get(review.description, PyStr(""))]

\* Variant: text that is not JSON is reported as a finding of its own.
parse_detailed_file_review_reporting_bad_json(response) ==
    IF response.json = "invalid"
    THEN [raised |-> FALSE,
          reviews |-> <<[line_number |-> PyNone, severity |-> PyStr("warning"),
                         description |-> PyStr("unparseable response")]>>]
    ELSE IF response.json # "object"
    THEN [raised |-> TRUE, reviews |-> <<>>]
    ELSE IF response.reviews_t = "missing"
    THEN [raised |-> FALSE, reviews |-> <<>>]
    ELSE IF response.reviews_t # "list"
    THEN [raised |-> TRUE, reviews |-> <<>>]
    ELSE IF \E k \in 1..Len(response.items) : ~response.items[k].is_dict
    THEN [raised |-> TRUE, reviews |-> <<>>]
    ELSE [raised |-> FALSE,
          reviews |-> [k \in 1..Len(response.items) |-> ParsedReview(response.items[k])]]

parse_detailed_file_review(response) ==
    IF response.json = "invalid"
    THEN [raised |-> FALSE, reviews |-> <<>>]
    ELSE IF response.json # "object"
    THEN [raised |-> TRUE, reviews |-> <<>>]
    ELSE IF response.reviews_t = "missing"
    THEN [raised |-> FALSE, reviews |-> <<>>]
    ELSE IF response.reviews_t # "list"
    THEN [raised |-> TRUE, reviews |-> <<>>]
    ELSE IF \E k \in 1..Len(response.items) : ~response.items[k].is_dict
    THEN [raised |-> TRUE, reviews |-> <<>>]
    ELSE [raised |-> FALSE,
          reviews |-> [k \in 1..Len(response.items) |-> ParsedReview(response.items[k])]]

(***************************************************************************)
(* The classification of one file's reviews in _review_all_files.          *)
(***************************************************************************)
full_desc(path, review) ==
    [location |-> path, with_line |-> truthy(review.line_number),
     line_number |-> IF truthy(review.line_number) THEN review.line_number ELSE PyNone,
     description |-> review.description]

IsSeverity(review, name) == review.severity.t = "str" /\ review.severity.s = name

\* Variant: a severity that is none of the three names is left out.
RECURSIVE Classified_known_severities(_, _, _, _)
Classified_known_severities(path, reviews, k, bucket) ==
    IF k > Len(reviews)
    THEN <<>>
    ELSE
        LET review == reviews[k]
            rest == Classified_known_severities(path, reviews, k + 1, bucket)
        IN IF IsSeverity(review, bucket) THEN <<full_desc(path, review)>> \o rest ELSE rest

RECURSIVE Classified(_, _, _, _)
Classified(path, reviews, k, bucket) ==
    IF k > Len(reviews)
    THEN <<>>
    ELSE
        LET review == reviews[k]
            here == IF IsSeverity(review, "critical") THEN "critical"
                    ELSE IF IsSeverity(review, "warning") THEN "warning"
                    ELSE "suggestion"
            rest == Classified(path, reviews, k + 1, bucket)
        IN IF here = bucket THEN <<full_desc(path, review)>> \o rest ELSE rest

(***************************************************************************)
(* OpenAIReviewer._calculate_score.  score is a float with halves; twice   *)
(* the float is the integer 20 - 4*issues - warnings, and int() truncates  *)
(* toward zero.                                                            *)
(***************************************************************************)
int_of_halves(twice) == IF twice >= 0 THEN twice \div 2 ELSE -((-twice) \div 2)
max(a, b) == IF a >= b THEN a ELSE b
min(a, b) == IF a <= b THEN a ELSE b

\* Variant: a warning costs a whole point.
calculate_score_whole_warnings(n_issues, n_warnings) ==
    max(1, min(10, 10 - 2 * n_issues - n_warnings))

\* Variant: the lower clamp is missing.
calculate_score_without_floor(n_issues, n_warnings) ==
    min(10, int_of_halves(20 - 4 * n_issues - n_warnings))

calculate_score(n_issues, n_warnings) ==
    max(1, min(10, int_of_halves(20 - 4 * n_issues - n_warnings)))

(***************************************************************************)
(* AIReviewResult.                                                         *)
(***************************************************************************)
SummaryLimit == 1000

\* total_tokens of the TokenUsage one call returns: 0 when the stream
\* carries no usage chunk.
TokenUsages == {0, 150}

\* A summary is text; it is written as the values the text is made from.
\* kind "overall" is the block of _build_overall_summary, "raw" the first
\* SummaryLimit characters of the backend's text, "error" the error message.
NoSummary ==
    [kind |-> "none", title |-> "", source_branch |-> "", target_branch |-> "",
     files_changed |-> 0, critical_issues |-> 0, warnings |-> 0, suggestions |-> 0,
     token_usage |-> None, text |-> NoText, first |-> 0, error |-> "none"]

\* Variant: the Token Usage section is never added.
build_overall_summary_without_usage(mr_info, files, n_issues, n_warnings, n_suggestions, usage) ==
    [NoSummary EXCEPT !.kind = "overall", !.title = mr_info.title,
                      !.source_branch = mr_info.source_branch,
                      !.target_branch = mr_info.target_branch,
                      !.files_changed = Len(files), !.critical_issues = n_issues,
                      !.warnings = n_warnings, !.suggestions = n_suggestions]

build_overall_summary(mr_info, files, n_issues, n_warnings, n_suggestions, usage) ==
    [NoSummary EXCEPT !.kind = "overall", !.title = mr_info.title,
                      !.source_branch = mr_info.source_branch,
                      !.target_branch = mr_info.target_branch,
                      !.files_changed = Len(files), !.critical_issues = n_issues,
                      !.warnings = n_warnings, !.suggestions = n_suggestions,
                      !.token_usage = IF usage > 0 THEN Int_(usage) ELSE None]

NoResult ==
    [provider |-> "none", summary |-> NoSummary, overall_score |-> 0, issues_count |-> 0,
     suggestions_count |-> 0,
     file_reviews |-> <<>>, file_review_keys |-> <<>>,
     critical_issues |-> <<>>, warnings |-> <<>>,
     suggestions |-> <<>>]

parse_text_response(response) ==
    [provider |-> "ollama",
     summary |-> [NoSummary EXCEPT !.kind = "raw", !.text = response, !.first = SummaryLimit],
     overall_score |-> 5, issues_count |-> 0, suggestions_count |-> 0,
     file_reviews |-> <<>>, file_review_keys |-> <<>>,
     critical_issues |-> <<>>, warnings |-> <<>>,
     suggestions |-> <<>>]

create_error_result(error_message) ==
    [provider |-> "ollama",
     summary |-> [NoSummary EXCEPT !.kind = "error", !.error = error_message],
     overall_score |-> 1, issues_count |-> 0, suggestions_count |-> 0,
     file_reviews |-> <<>>, file_review_keys |-> <<>>,
     critical_issues |-> <<>>, warnings |-> <<>>,
     suggestions |-> <<>>]

(***************************************************************************)
(* The web API, src/server/api/ai.py.  A task entry of _review_tasks is    *)
(* its status with the ReviewResponse or the error text; the error text    *)
(* is written as the kind of the exception it was made from.               *)
(***************************************************************************)
\* The worker threads that run _run_review, and the task IDs a client polls.
Jobs == {1, 2}
PolledIds == {1, 2, 3}
FallbackLimit == 20

\* Variant: the assignment replaces the table by the one entry.
dict_set_forgetting(d, key, value) == [k \in {key} |-> value]

dict_set(d, key, value) == [k \in DOMAIN d \cup {key} |-> IF k = key THEN value ELSE d[k]]

\* Variant: every request gets the same task ID.
new_task_id_constant(tasks) == 1

\* str(uuid.uuid4()): an ID no earlier task has.
new_task_id(tasks) == Cardinality(DOMAIN tasks) + 1

NoResponse ==
    [status |-> "none", summary |-> NoSummary, overall_score |-> 0, issues_count |-> 0,
     suggestions_count |-> 0,
     comments |-> <<>>]
ReviewResponse(review_result, comments) ==
    [status |-> "completed", summary |-> review_result.summary,
     overall_score |-> review_result.overall_score,
     issues_count |-> review_result.issues_count,
     suggestions_count |-> review_result.suggestions_count, comments |-> comments]

RunningTask == [status |-> "running", response |-> NoResponse, error |-> "none"]
CompletedTask(response) == [status |-> "completed", response |-> response, error |-> "none"]
ErrorTask(kind) == [status |-> "error", response |-> NoResponse, error |-> kind]

\* How _run_review ended: "ok" with the response, or the kind of the exception.
Ended(kind, response) == [kind |-> kind, response |-> response]

\* Variant: an exception that is neither a GitLab nor an AI error is not caught.
run_review_entry_uncaught(ending) ==
    IF ending.kind = "ok" THEN CompletedTask(ending.response)
    ELSE IF ending.kind = "Exception" THEN RunningTask
    ELSE ErrorTask(ending.kind)

\* The entry _run_review writes when it ends.
run_review_entry(ending) ==
    IF ending.kind = "ok" THEN CompletedTask(ending.response) ELSE ErrorTask(ending.kind)

\* The merge requests the GitLab server holds, by iid, and their diffs.
MergeRequests == {1, 2}
NoMergeRequest == [title |-> "", source_branch |-> "", target_branch |-> ""]
get_merge_request(mr_iid) ==
    IF mr_iid = 1
    THEN [title |-> "Fix parser", source_branch |-> "fix/parser", target_branch |-> "main"]
    ELSE [title |-> "Add cache", source_branch |-> "feature/cache", target_branch |-> "develop"]
get_merge_request_diffs(mr_iid) ==
    IF mr_iid = 1
    THEN <<DiffFile(PathNames[1], ScenarioDiff)>>
    ELSE <<DiffFile(PathNames[2], ScenarioDiff), DiffFile(PathNames[3], ScenarioDiff)>>

\* The locals of one _run_review and of the review_merge_request it calls.
NoJob ==
    [task_id |-> 0, provider |-> "none", mr_iid |-> 0, pc |-> "none", diff_files |-> <<>>,
     mr |-> NoMergeRequest, total_usage |-> 0,
     file_idx |-> 0, all_file_reviews |-> <<>>, all_file_review_keys |-> <<>>,
     all_issues |-> <<>>, all_warnings |-> <<>>, all_suggestions |-> <<>>,
     calls |-> <<>>, ending |-> "none"]
NewJob(task_id, reviewer, mr_iid) ==
    [NoJob EXCEPT !.task_id = task_id, !.provider = reviewer, !.mr_iid = mr_iid,
                  !.pc = "queued"]

NoPoll == [task_id |-> 0, http |-> 0, status |-> "none"]

WebIdle ==
    /\ review_tasks = <<>>
    /\ jobs = [j \in Jobs |-> NoJob]
    /\ polled = NoPoll

(***************************************************************************)
(* Publishing a comment: MainWindow._on_publish_comment and                *)
(* GitLabClient.create_merge_request_note / _discussion.  A request is     *)
(* what the client asked GitLab to create and what GitLab answered.        *)
(***************************************************************************)
Comment(file_path, content, line_number, line_type) ==
    [file_path |-> file_path, content |-> content, line_number |-> line_number,
     line_type |-> line_type]
NoComment == Comment("", "", PyNone, "none")

Comments ==
    {Comment(file_path, content, line_number, line_type) :
        file_path \in {"a.py", "b.py"},
        content \in {"Critical: unused var", "Warning: no such line"},
        line_number \in {PyNone, PyInt(0), PyInt(11), PyInt(99), PyStr("NEW:11")},
        line_type \in {"addition", "deletion", "context"}}

\* mr.notes.create({"body": ...}); located says whether the body starts with
\* "**file_path:line_number**".
NoteRequest(located, file_path, line_number, content, answer) ==
    [api |-> "notes", located |-> located, file_path |-> file_path,
     line_number |-> line_number, side |-> "none", body |-> content, answer |-> answer]

\* mr.discussions.create({"body": ..., "position": ...}).
DiscussionRequest(file_path, line_number, side, content, answer) ==
    [api |-> "discussions", located |-> FALSE, file_path |-> file_path,
     line_number |-> line_number, side |-> side, body |-> content, answer |-> answer]

\* The lines of the merge request's diff GitLab can anchor a discussion to.
Anchorable(side, line_number) ==
    \/ side = "new" /\ line_number \in {10, 11, 12, 13}
    \/ side = "old" /\ line_number \in {10, 11}

\* What GitLab answers: "created"; "line_code", a GitlabError whose message
\* names line_code; "error", any other GitlabError.
NoteAnswers == {"created", "error"}
DiscussionAnswers(side, line_number) ==
    IF Anchorable(side, line_number) THEN {"created", "error"} ELSE {"line_code", "error"}

PublishIdle ==
    /\ comment = NoComment
    /\ requests = <<>>
    /\ published = "none"

(***************************************************************************)
(* State of the parts a specification leaves alone.                        *)
(***************************************************************************)
NotRun == [raised |-> FALSE, lines |-> <<>>, old_line |-> None, new_line |-> None]

ReviewIdle ==
    /\ quick_mode = FALSE
    /\ mr = NoMergeRequest
    /\ total_usage = 0
    /\ diff_files = <<>>
    /\ pc = "idle"
    /\ file_idx = 0
    /\ all_file_reviews = <<>>
    /\ all_file_review_keys = <<>>
    /\ all_issues = <<>>
    /\ all_warnings = <<>>
    /\ all_suggestions = <<>>
    /\ calls = <<>>
    /\ result = NoResult
    /\ exception = "none"

DiffIdle ==
    /\ annotated = NotRun
    /\ line_info = <<>>

NoWorker == [id |-> 0, files |-> "none"]

GuiIdle ==
    /\ ui_thread = "event_loop"
    /\ waiting_handler = "none"
    /\ ai_review_thread = "none"
    /\ ai_review_worker = NoWorker
    /\ ui_events = <<>>
    /\ ai_review_btn = TRUE
    /\ ai_review_file_btn = TRUE
    /\ outcomes = <<>>

NoFailure == [kind |-> "none", words |-> {}]

ApiIdle ==
    /\ api_failure = NoFailure
    /\ api_raised = "none"

PanelIdle ==
    /\ local_comments = <<>>
    /\ editing_index = None
    /\ editing_comment = 0
    /\ created = 0
    /\ publish_failed = {}

NoCall == [op |-> "none", project_id |-> 0, returned |-> FALSE]

\* recent_projects.json: absent, holding a JSON object, or cut short by a
\* write that failed.
AbsentFile == [state |-> "absent", recent_projects |-> <<>>]

CacheIdle ==
    /\ cache_file = AbsentFile
    /\ now = 0
    /\ cache_call = NoCall

ExtraIdle ==
    /\ GuiIdle
    /\ ApiIdle
    /\ PanelIdle
    /\ CacheIdle

ScoreIdle ==
    /\ issues = 0
    /\ warnings = 0
    /\ suggestions = 0
    /\ score = None

(***************************************************************************)
(* review_merge_request: the caller passes the diff files and quick_mode;  *)
(* mr is the first merge request.                                          *)
(***************************************************************************)
StartReview ==
    /\ pc = "idle"
    /\ \E files \in FileLists : diff_files' = files
    /\ quick_mode' \in BOOLEAN
    /\ mr' = get_merge_request(1)
    /\ pc' = "running"
    /\ file_idx' = 1
    /\ UNCHANGED <<provider, total_usage, all_file_reviews, all_file_review_keys, all_issues,
                   all_warnings, all_suggestions,
                   calls, result, exception>>
    /\ UNCHANGED <<diff_vars, score_vars, web_vars, publish_vars, extra_vars>>

(***************************************************************************)
(* _build_detailed_file_review_prompt raises when the annotator does.      *)
(***************************************************************************)
PromptRaises(f) == annotate_diff_with_line_numbers(f.diff).raised

(***************************************************************************)
(* What one iteration of `for diff_file in diff_files` does with the       *)
(* backend's outcome: "raise" leaves review_merge_request, "continue"      *)
(* goes to the next file without touching the aggregates, "aggregate"      *)
(* records the parsed reviews.                                             *)
(***************************************************************************)
\* Variant: a fatal error is logged and the loop goes on.
Handling_fatal_continues(outcome) ==
    IF outcome.kind # "text" THEN "continue"
    ELSE IF parse_detailed_file_review(outcome.text).raised THEN "continue"
    ELSE "aggregate"

\* Variant: every AIException, and every other exception, stops the review.
Handling_any_error_raises(outcome) ==
    IF outcome.kind # "text" THEN "raise"
    ELSE IF parse_detailed_file_review(outcome.text).raised THEN "raise"
    ELSE "aggregate"

Handling(outcome) ==
    IF outcome.kind \in FatalErrors THEN "raise"
    ELSE IF outcome.kind # "text" THEN "continue"
    ELSE IF parse_detailed_file_review(outcome.text).raised THEN "continue"
    ELSE "aggregate"

Recorded(reviews_by_path, path, file_reviews) ==
    [p \in DOMAIN reviews_by_path \cup {path} |->
        IF p = path THEN file_reviews ELSE reviews_by_path[p]]

\* Variant: a new key goes to the front.
RecordedKeys_prepending(keys, path) ==
    IF \E k \in 1..Len(keys) : keys[k] = path THEN keys ELSE <<path>> \o keys

\* A dict keeps a key at the place of its first assignment.
RecordedKeys(keys, path) ==
    IF \E k \in 1..Len(keys) : keys[k] = path THEN keys ELSE Append(keys, path)

ReviewFile ==
    /\ provider = "openai"
    /\ pc = "running"
    /\ file_idx <= Len(diff_files)
    /\ LET diff_file == diff_files[file_idx]
           path == get_display_path(diff_file)
       IN
       IF PromptRaises(diff_file)
       THEN /\ file_idx' = file_idx + 1
            /\ UNCHANGED <<pc, total_usage, all_file_reviews, all_file_review_keys, all_issues,
                           all_warnings,
                           all_suggestions, calls, exception>>
       ELSE \E outcome \in OpenAIOutcomes :
            /\ calls' = Append(calls, [idx |-> file_idx, outcome |-> outcome])
            /\ \E usage \in TokenUsages :
                   total_usage' = IF outcome.kind = "text" THEN total_usage + usage
                                  ELSE total_usage
            /\ IF Handling(outcome) = "raise"
               THEN /\ pc' = "raised"
                    /\ exception' = outcome.kind
                    /\ UNCHANGED <<file_idx, all_file_reviews, all_file_review_keys,
                                   all_issues, all_warnings,
                                   all_suggestions>>
               ELSE IF Handling(outcome) = "continue"
               THEN /\ file_idx' = file_idx + 1
                    /\ UNCHANGED <<pc, exception, all_file_reviews, all_file_review_keys,
                                   all_issues,
                                   all_warnings, all_suggestions>>
               ELSE LET file_reviews == parse_detailed_file_review(outcome.text).reviews IN
                    /\ file_idx' = file_idx + 1
                    /\ UNCHANGED <<pc, exception>>
                    /\ IF file_reviews # <<>>
                       THEN /\ all_file_reviews' =
                                  Recorded(all_file_reviews, path, file_reviews)
                            /\ all_file_review_keys' =
                                  RecordedKeys(all_file_review_keys, path)
                            /\ all_issues' =
                                  all_issues \o Classified(path, file_reviews, 1, "critical")
                            /\ all_warnings' =
                                  all_warnings \o Classified(path, file_reviews, 1, "warning")
                            /\ all_suggestions' =
                                  all_suggestions
                                      \o Classified(path, file_reviews, 1, "suggestion")
                       ELSE UNCHANGED <<all_file_reviews, all_file_review_keys, all_issues,
                                        all_warnings,
                                        all_suggestions>>
    /\ UNCHANGED <<provider, quick_mode, mr, diff_files, result>>
    /\ UNCHANGED <<diff_vars, score_vars, web_vars, publish_vars, extra_vars>>

(***************************************************************************)
(* After the loop: the AIReviewResult is built and returned.               *)
(***************************************************************************)
\* Variant: suggestions_count leaves the warnings out.
ReviewResult_suggestions_only ==
    [provider |-> "openai",
     summary |-> build_overall_summary(mr, diff_files, Len(all_issues), Len(all_warnings),
                                       Len(all_suggestions), total_usage),
     overall_score |-> calculate_score(Len(all_issues), Len(all_warnings)),
     issues_count |-> Len(all_issues),
     suggestions_count |-> Len(all_suggestions),
     file_reviews |-> all_file_reviews,
     file_review_keys |-> all_file_review_keys,
     critical_issues |-> all_issues,
     warnings |-> all_warnings,
     suggestions |-> all_suggestions]

\* Variant: the score is the neutral default of the summary-only paths.
ReviewResult_default_score ==
    [provider |-> "openai",
     summary |-> build_overall_summary(mr, diff_files, Len(all_issues), Len(all_warnings),
                                       Len(all_suggestions), total_usage),
     overall_score |-> 5,
     issues_count |-> Len(all_issues),
     suggestions_count |-> Len(all_warnings) + Len(all_suggestions),
     file_reviews |-> all_file_reviews,
     file_review_keys |-> all_file_review_keys,
     critical_issues |-> all_issues,
     warnings |-> all_warnings,
     suggestions |-> all_suggestions]

ReviewResult ==
    [provider |-> "openai",
     summary |-> build_overall_summary(mr, diff_files, Len(all_issues), Len(all_warnings),
                                       Len(all_suggestions), total_usage),
     overall_score |-> calculate_score(Len(all_issues), Len(all_warnings)),
     issues_count |-> Len(all_issues),
     suggestions_count |-> Len(all_warnings) + Len(all_suggestions),
     file_reviews |-> all_file_reviews,
     file_review_keys |-> all_file_review_keys,
     critical_issues |-> all_issues,
     warnings |-> all_warnings,
     suggestions |-> all_suggestions]

FinishReview ==
    /\ provider = "openai"
    /\ pc = "running"
    /\ file_idx > Len(diff_files)
    /\ result' = ReviewResult
    /\ pc' = "done"
    /\ UNCHANGED <<provider, quick_mode, mr, total_usage, diff_files, file_idx,
                   all_file_reviews, all_file_review_keys, all_issues,
                   all_warnings, all_suggestions, calls, exception>>
    /\ UNCHANGED <<diff_vars, score_vars, web_vars, publish_vars, extra_vars>>

(***************************************************************************)
(* OllamaReviewer.review_merge_request: one call for the whole merge       *)
(* request; every exception is turned into an error result.                *)
(***************************************************************************)
OllamaResult(outcome) ==
    IF outcome.kind = "text" THEN parse_text_response(outcome.text)
    ELSE create_error_result(outcome.kind)

OllamaReview ==
    /\ provider = "ollama"
    /\ pc = "running"
    /\ \E outcome \in OllamaOutcomes :
        /\ calls' = Append(calls, [idx |-> 0, outcome |-> outcome])
        /\ result' = OllamaResult(outcome)
    /\ pc' = "done"
    /\ UNCHANGED <<provider, quick_mode, mr, total_usage, diff_files, file_idx,
                   all_file_reviews, all_file_review_keys, all_issues,
                   all_warnings, all_suggestions, exception>>
    /\ UNCHANGED <<diff_vars, score_vars, web_vars, publish_vars, extra_vars>>

Init ==
    /\ ExtraIdle
    /\ provider \in {"openai", "ollama"}
    /\ ReviewIdle
    /\ diff = <<EmptyLine>>
    /\ DiffIdle
    /\ ScoreIdle
    /\ WebIdle
    /\ PublishIdle

Next == StartReview \/ ReviewFile \/ FinishReview \/ OllamaReview

Spec == Init /\ [][Next]_vars

(***************************************************************************)
(* The annotator and the viewer on every diff text of up to MaxLines       *)
(* lines.                                                                  *)
(***************************************************************************)
Annotate ==
    /\ annotated = NotRun
    /\ annotated' = annotate_diff_with_line_numbers(diff)
    /\ UNCHANGED <<diff, line_info>>
    /\ UNCHANGED <<review_vars, score_vars, web_vars, publish_vars, extra_vars>>

LoadDiffFile ==
    /\ line_info = <<>>
    /\ line_info' = load_diff_file(diff)
    /\ UNCHANGED <<diff, annotated>>
    /\ UNCHANGED <<review_vars, score_vars, web_vars, publish_vars, extra_vars>>

InitDiff ==
    /\ ExtraIdle
    /\ provider = "openai"
    /\ ReviewIdle
    /\ diff \in Diffs
    /\ DiffIdle
    /\ ScoreIdle
    /\ WebIdle
    /\ PublishIdle

NextDiff == Annotate \/ LoadDiffFile

SpecDiff == InitDiff /\ [][NextDiff]_vars

(***************************************************************************)
(* The score on every pair of counts up to MaxCount.                       *)
(***************************************************************************)
CalculateScore ==
    /\ score = None
    /\ score' = Int_(calculate_score(issues, warnings))
    /\ UNCHANGED <<issues, warnings, suggestions>>
    /\ UNCHANGED <<review_vars, diff_vars, web_vars, publish_vars, extra_vars>>

InitScore ==
    /\ ExtraIdle
    /\ provider = "openai"
    /\ ReviewIdle
    /\ diff = <<EmptyLine>>
    /\ DiffIdle
    /\ issues \in 0..MaxCount
    /\ warnings \in 0..MaxCount
    /\ suggestions \in 0..MaxCount
    /\ score = None
    /\ WebIdle
    /\ PublishIdle

NextScore == CalculateScore

SpecScore == InitScore /\ [][NextScore]_vars

(***************************************************************************)
(* server/api/ai.py _convert_result_to_comments.  The strings the model    *)
(* can return are few, so str.capitalize, str.isdigit with int(), and      *)
(* str.rsplit(":", 1) are given on those strings.                          *)
(***************************************************************************)
capitalize(text) ==
    IF text = "critical" THEN "Critical"
    ELSE IF text = "warning" THEN "Warning"
    ELSE IF text = "suggestion" THEN "Suggestion"
    ELSE IF text = "blocker" THEN "Blocker"
    ELSE text

\* int(text) when text consists of decimal digits, None otherwise.
int_of_digits(text) == IF text = "11" THEN Int_(11) ELSE None

\* text.rsplit(":", 1) as [head, tail]; colon says whether text holds a ':'.
rsplit_colon(text) ==
    IF text = "NEW:11" THEN [colon |-> TRUE, head |-> "NEW", tail |-> "11"]
    ELSE [colon |-> FALSE, head |-> "", tail |-> text]

\* The pydantic model ReviewComment: line_number must be None, an int, or a
\* string that reads as an int; valid = FALSE stands for ValidationError.
ReviewComment(file_path, line_number, content, severity) ==
    LET as_int == IF line_number.t = "int" THEN Int_(line_number.n)
                  ELSE IF line_number.t = "str" THEN int_of_digits(line_number.s)
                  ELSE None
    IN [valid |-> line_number.t = "none" \/ ~as_int.none,
        file_path |-> file_path, line_number |-> as_int, content |-> content,
        severity |-> severity]

Content(label, description) == [label |-> label, description |-> description]

\* The comments of one file's review list; raised = TRUE when
\* severity.capitalize() or ReviewComment(...) raises.
RECURSIVE CommentsOfReviews(_, _, _)
CommentsOfReviews(file_path, file_review_list, k) ==
    IF k > Len(file_review_list)
    THEN [raised |-> FALSE, comments |-> <<>>]
    ELSE
        LET review_item == file_review_list[k]
            line_number == dict_get(review_item.line_number, PyNone)
            description == dict_get(review_item.description, PyStr(""))
            severity == dict_get(review_item.severity, PyStr("suggestion"))
            made == ReviewComment(file_path, line_number,
                                  Content(capitalize(severity.s), description.s),
                                  severity.s)
            rest == CommentsOfReviews(file_path, file_review_list, k + 1)
        IN IF ~truthy(description) THEN rest
           ELSE IF severity.t # "str" \/ ~made.valid \/ rest.raised
           THEN [raised |-> TRUE, comments |-> <<>>]
           ELSE [raised |-> FALSE, comments |-> <<made>> \o rest.comments]

RECURSIVE CommentsOfFiles(_, _)
CommentsOfFiles(review_result, k) ==
    IF k > Len(review_result.file_review_keys)
    THEN [raised |-> FALSE, comments |-> <<>>]
    ELSE
        LET file_path == review_result.file_review_keys[k]
            here == CommentsOfReviews(file_path, review_result.file_reviews[file_path], 1)
            rest == CommentsOfFiles(review_result, k + 1)
        IN IF here.raised \/ rest.raised
           THEN [raised |-> TRUE, comments |-> <<>>]
           ELSE [raised |-> FALSE, comments |-> here.comments \o rest.comments]

\* One entry of critical_issues, warnings or suggestions read back:
\* "location - description" is split at " - ", and the location at its last
\* ':' when digits follow it.
FallbackComment(severity, desc) ==
    LET line_str == IF desc.line_number.t = "int" THEN ToString(desc.line_number.n)
                    ELSE desc.line_number.s
        line_text == IF desc.line_number.t = "int"
                     THEN [colon |-> FALSE, head |-> "", tail |-> line_str]
                     ELSE rsplit_colon(line_str)
        line_is_digits == IF desc.line_number.t = "int" THEN desc.line_number.n >= 0
                          ELSE ~int_of_digits(line_text.tail).none
        file_path == IF ~desc.with_line THEN desc.location
                     ELSE IF ~line_is_digits
                     THEN desc.location \o ":" \o line_str
                     ELSE IF line_text.colon THEN desc.location \o ":" \o line_text.head
                     ELSE desc.location
        line_number == IF ~desc.with_line \/ ~line_is_digits THEN PyNone
                       ELSE IF desc.line_number.t = "int" THEN desc.line_number
                       ELSE PyInt(int_of_digits(line_text.tail).v)
    IN ReviewComment(file_path, line_number,
                     Content(capitalize(severity), desc.description.s), severity)

Labelled(severity, descs) == [k \in 1..Len(descs) |-> [severity |-> severity, desc |-> descs[k]]]

convert_result_to_comments(review_result) ==
    LET first == CommentsOfFiles(review_result, 1)
        all_items == Labelled("critical", review_result.critical_issues)
                        \o Labelled("warning", review_result.warnings)
                        \o Labelled("suggestion", review_result.suggestions)
        kept == SubSeq(all_items, 1, min(Len(all_items), FallbackLimit))
    IN IF first.raised \/ first.comments # <<>>
       THEN first
       ELSE [raised |-> FALSE,
             comments |-> [k \in 1..Len(kept) |->
                              FallbackComment(kept[k].severity, kept[k].desc)]]

(***************************************************************************)
(* start_review registers the task as running and queues _run_review;      *)
(* the jobs run in worker threads, one step here per call they make to     *)
(* GitLab or to the backend.  quick_mode is handed on to                   *)
(* review_merge_request, which does not read it.                           *)
(***************************************************************************)
StartReviewTask ==
    /\ \E j \in Jobs :
        /\ jobs[j].pc = "none"
        /\ \A i \in 1..(j - 1) : jobs[i].pc # "none"
        /\ \E reviewer \in {"openai", "ollama"}, mr_iid \in MergeRequests :
            LET task_id == new_task_id(review_tasks) IN
            /\ review_tasks' = dict_set(review_tasks, task_id, RunningTask)
            /\ jobs' = [jobs EXCEPT ![j] = NewJob(task_id, reviewer, mr_iid)]
    /\ UNCHANGED polled
    /\ UNCHANGED <<review_vars, diff_vars, score_vars, publish_vars, extra_vars>>

\* _run_review leaves its try statement and writes the task's entry.
EndJob(j, ending) ==
    /\ jobs' = [jobs EXCEPT ![j].pc = "ended", ![j].ending = ending.kind]
    /\ review_tasks' = dict_set(review_tasks, jobs[j].task_id, run_review_entry(ending))

\* client.get_merge_request and client.get_merge_request_diffs.
FetchMergeRequest(j) ==
    /\ jobs[j].pc = "queued"
    /\ \/ EndJob(j, Ended("GitLabException", NoResponse))
       \/ /\ jobs' = [jobs EXCEPT ![j].pc = "reviewing",
                                   ![j].mr = get_merge_request(jobs[j].mr_iid),
                                   ![j].diff_files = get_merge_request_diffs(jobs[j].mr_iid),
                                   ![j].file_idx = 1]
          /\ UNCHANGED review_tasks
    /\ UNCHANGED polled
    /\ UNCHANGED <<review_vars, diff_vars, score_vars, publish_vars, extra_vars>>

WebOutcomes ==
    {Raises("AIAuthError"), Raises("AIException"),
     Returns(JsonObject("list", <<EntryCritical11, EntryWarning99>>)),
     Returns(JsonObject("list", <<EntryOddLine, EntryBare>>)),
     Returns(JsonObject("list", <<EntryBare>>))}

\* The locals after one iteration of the loop that aggregates file_reviews.
Aggregated(job, path, file_reviews) ==
    IF file_reviews = <<>>
    THEN [job EXCEPT !.file_idx = job.file_idx + 1]
    ELSE [job EXCEPT
             !.file_idx = job.file_idx + 1,
             !.all_file_reviews = Recorded(job.all_file_reviews, path, file_reviews),
             !.all_file_review_keys = RecordedKeys(job.all_file_review_keys, path),
             !.all_issues = job.all_issues \o Classified(path, file_reviews, 1, "critical"),
             !.all_warnings = job.all_warnings \o Classified(path, file_reviews, 1, "warning"),
             !.all_suggestions =
                 job.all_suggestions \o Classified(path, file_reviews, 1, "suggestion")]

\* One iteration of the per-file loop inside a job.
JobReviewFile(j) ==
    /\ jobs[j].pc = "reviewing"
    /\ jobs[j].provider = "openai"
    /\ jobs[j].file_idx <= Len(jobs[j].diff_files)
    /\ LET job == jobs[j]
           diff_file == job.diff_files[job.file_idx]
           path == get_display_path(diff_file)
       IN
       IF PromptRaises(diff_file)
       THEN /\ jobs' = [jobs EXCEPT ![j].file_idx = job.file_idx + 1]
            /\ UNCHANGED review_tasks
       ELSE \E outcome \in WebOutcomes, usage \in TokenUsages :
            LET called == [job EXCEPT
                              !.calls = Append(job.calls, [idx |-> job.file_idx,
                                                           outcome |-> outcome]),
                              !.total_usage = IF outcome.kind = "text"
                                              THEN job.total_usage + usage
                                              ELSE job.total_usage]
            IN
            IF Handling(outcome) = "raise"
            THEN /\ jobs' = [jobs EXCEPT ![j] = [called EXCEPT !.pc = "ended",
                                                               !.ending = outcome.kind]]
                 /\ review_tasks' = dict_set(review_tasks, job.task_id,
                                             run_review_entry(Ended(outcome.kind, NoResponse)))
            ELSE IF Handling(outcome) = "continue"
            THEN /\ jobs' = [jobs EXCEPT ![j] = [called EXCEPT !.file_idx = job.file_idx + 1]]
                 /\ UNCHANGED review_tasks
            ELSE /\ jobs' = [jobs EXCEPT ![j] =
                                Aggregated(called, path,
                                           parse_detailed_file_review(outcome.text).reviews)]
                 /\ UNCHANGED review_tasks
    /\ UNCHANGED polled
    /\ UNCHANGED <<review_vars, diff_vars, score_vars, publish_vars, extra_vars>>

\* The AIReviewResult review_merge_request returns to the job.
JobResult(job) ==
    [provider |-> "openai",
     summary |-> build_overall_summary(job.mr, job.diff_files, Len(job.all_issues),
                                       Len(job.all_warnings), Len(job.all_suggestions),
                                       job.total_usage),
     overall_score |-> calculate_score(Len(job.all_issues), Len(job.all_warnings)),
     issues_count |-> Len(job.all_issues),
     suggestions_count |-> Len(job.all_warnings) + Len(job.all_suggestions),
     file_reviews |-> job.all_file_reviews,
     file_review_keys |-> job.all_file_review_keys,
     critical_issues |-> job.all_issues,
     warnings |-> job.all_warnings,
     suggestions |-> job.all_suggestions]

\* The result is converted and the task's entry written.
Converted(review_result) ==
    LET converted == convert_result_to_comments(review_result) IN
    IF converted.raised
    THEN Ended("Exception", NoResponse)
    ELSE Ended("ok", ReviewResponse(review_result, converted.comments))

JobFinish(j) ==
    /\ jobs[j].pc = "reviewing"
    /\ jobs[j].provider = "openai"
    /\ jobs[j].file_idx > Len(jobs[j].diff_files)
    /\ EndJob(j, Converted(JobResult(jobs[j])))
    /\ UNCHANGED polled
    /\ UNCHANGED <<review_vars, diff_vars, score_vars, publish_vars, extra_vars>>

JobOllama(j) ==
    /\ jobs[j].pc = "reviewing"
    /\ jobs[j].provider = "ollama"
    /\ \E outcome \in OllamaOutcomes :
        LET ending == Converted(OllamaResult(outcome)) IN
        /\ jobs' = [jobs EXCEPT ![j].calls = Append(jobs[j].calls, [idx |-> 0,
                                                                    outcome |-> outcome]),
                                ![j].pc = "ended", ![j].ending = ending.kind]
        /\ review_tasks' = dict_set(review_tasks, jobs[j].task_id, run_review_entry(ending))
    /\ UNCHANGED polled
    /\ UNCHANGED <<review_vars, diff_vars, score_vars, publish_vars, extra_vars>>

RunReview == \E j \in Jobs :
    FetchMergeRequest(j) \/ JobReviewFile(j) \/ JobFinish(j) \/ JobOllama(j)

\* get_review_status: 404 for an unknown task, the result of a completed
\* one, 500 for a failed one, "running" otherwise.
GetReviewStatus ==
    /\ \E task_id \in PolledIds :
        polled' =
            IF task_id \notin DOMAIN review_tasks
            THEN [task_id |-> task_id, http |-> 404, status |-> "none"]
            ELSE IF review_tasks[task_id].status = "completed"
            THEN [task_id |-> task_id, http |-> 200, status |-> "completed"]
            ELSE IF review_tasks[task_id].status = "error"
            THEN [task_id |-> task_id, http |-> 500, status |-> "error"]
            ELSE [task_id |-> task_id, http |-> 200, status |-> "running"]
    /\ UNCHANGED <<review_tasks, jobs>>
    /\ UNCHANGED <<review_vars, diff_vars, score_vars, publish_vars, extra_vars>>

InitWeb ==
    /\ ExtraIdle
    /\ provider = "openai"
    /\ ReviewIdle
    /\ diff = <<EmptyLine>>
    /\ DiffIdle
    /\ ScoreIdle
    /\ WebIdle
    /\ PublishIdle

NextWeb == StartReviewTask \/ RunReview \/ GetReviewStatus

SpecWeb == InitWeb /\ [][NextWeb]_vars

(***************************************************************************)
(* _on_publish_comment with the client call it makes.  published is        *)
(* "success" when the client returned True, "failed" when it returned      *)
(* False, "exception" when the handler's except clause ran.                *)
(***************************************************************************)
\* The note create_merge_request_discussion posts after GitLab rejected the
\* position with a message naming line_code.
fallback_requests(file_path, line_number, content, answer) ==
    <<NoteRequest(TRUE, file_path, Int_(line_number), content, answer)>>

\* int(line_number): None stands for ValueError.
int_of_line(line_number) ==
    IF line_number.t = "int" THEN Int_(line_number.n)
    ELSE IF line_number.t = "str" THEN int_of_digits(line_number.s)
    ELSE None

position_type(line_type) ==
    IF line_type = "addition" THEN "new" ELSE IF line_type = "deletion" THEN "old" ELSE "new"

PublishComment ==
    /\ published = "none"
    /\ IF comment.line_number = PyNone \/ comment.line_number = PyInt(0)
       THEN \E answer \in NoteAnswers :
            /\ requests' = <<NoteRequest(FALSE, "", None, comment.content, answer)>>
            /\ published' = IF answer = "created" THEN "success" ELSE "failed"
       ELSE IF int_of_line(comment.line_number).none
       THEN /\ requests' = <<>>
            /\ published' = "exception"
       ELSE LET line == int_of_line(comment.line_number).v
                side == position_type(comment.line_type)
            IN \E answer \in DiscussionAnswers(side, line) :
               LET asked == DiscussionRequest(comment.file_path, Int_(line), side,
                                              comment.content, answer)
               IN IF answer = "line_code"
                  THEN \E note_answer \in NoteAnswers :
                       /\ requests' = <<asked>> \o fallback_requests(comment.file_path, line,
                                                                      comment.content,
                                                                      note_answer)
                       /\ published' = IF note_answer = "created" THEN "success"
                                       ELSE "failed"
                  ELSE /\ requests' = <<asked>>
                       /\ published' = IF answer = "created" THEN "success" ELSE "failed"
    /\ UNCHANGED comment
    /\ UNCHANGED <<review_vars, diff_vars, score_vars, web_vars, extra_vars>>

InitPublish ==
    /\ ExtraIdle
    /\ provider = "openai"
    /\ ReviewIdle
    /\ diff = <<EmptyLine>>
    /\ DiffIdle
    /\ ScoreIdle
    /\ WebIdle
    /\ comment \in Comments
    /\ requests = <<>>
    /\ published = "none"

NextPublish == PublishComment

SpecPublish == InitPublish /\ [][NextPublish]_vars

(***************************************************************************)
(* The desktop GUI's review worker (MainWindow._on_ai_review,              *)
(* _on_ai_review_current_file, AIReviewWorker.run_review).  A review runs  *)
(* as a slot of a QThread's event loop; the worker's signals reach the GUI *)
(* thread as queued events.  QThread.quit() only ends the event loop, so   *)
(* QThread.wait() returns when the slot that is running has returned.      *)
(***************************************************************************)
MaxReviews == 3

Signals == {"review_completed", "review_failed"}

Worker(id, files) == [id |-> id, files |-> files]

\* ai_review_thread.isRunning()
isRunning == ai_review_thread \in {"reviewing", "event_loop"}

\* From `self.ai_review_thread = QThread()` to `self.ai_review_thread.start()`.
StartWorker(files) ==
    /\ ai_review_thread' = "reviewing"
    /\ ai_review_worker' = Worker(ai_review_worker.id + 1, files)
    /\ ai_review_btn' = IF files = "all" THEN FALSE ELSE ai_review_btn
    /\ ai_review_file_btn' = IF files = "current" THEN FALSE ELSE ai_review_file_btn

\* The part of both handlers from `if self.ai_review_thread and
\* self.ai_review_thread.isRunning()` on: quit(), wait(), then a new worker.
\* wait() returns at once when the thread's event loop is idle and suspends
\* the handler while run_review is executing.
StopAndStart(files) ==
    IF ai_review_thread = "reviewing"
    THEN /\ ui_thread' = "wait"
         /\ waiting_handler' = files
         /\ ai_review_btn' = IF files = "all" THEN FALSE ELSE ai_review_btn
         /\ UNCHANGED <<ai_review_thread, ai_review_worker, ai_review_file_btn>>
    ELSE /\ StartWorker(files)
         /\ UNCHANGED <<ui_thread, waiting_handler>>

\* CommentPanel._on_ai_review disables its button and emits
\* ai_review_requested, which runs MainWindow._on_ai_review.
OnAIReview ==
    /\ ui_thread = "event_loop"
    /\ ai_review_btn
    /\ ai_review_worker.id < MaxReviews
    /\ StopAndStart("all")
    /\ UNCHANGED <<ui_events, outcomes>>
    /\ UNCHANGED <<core_vars, api_vars, panel_vars, cache_vars>>

OnAIReviewCurrentFile ==
    /\ ui_thread = "event_loop"
    /\ ai_review_file_btn
    /\ ai_review_worker.id < MaxReviews
    /\ StopAndStart("current")
    /\ UNCHANGED <<ui_events, outcomes>>
    /\ UNCHANGED <<core_vars, api_vars, panel_vars, cache_vars>>

\* AIReviewWorker.run_review returns after emitting one of its two signals.
\* The thread then goes back to its event loop, or ends when quit() was
\* already called on it.
RunReviewWorker ==
    /\ ai_review_thread = "reviewing"
    /\ \E signal \in Signals :
           ui_events' = Append(ui_events, [signal |-> signal, worker |-> ai_review_worker])
    /\ ai_review_thread' = IF ui_thread = "wait" THEN "finished" ELSE "event_loop"
    /\ UNCHANGED <<ui_thread, waiting_handler, ai_review_worker, ai_review_btn,
                   ai_review_file_btn, outcomes>>
    /\ UNCHANGED <<core_vars, api_vars, panel_vars, cache_vars>>

\* QThread.wait() returns and the suspended handler goes on.
WaitReturns ==
    /\ ui_thread = "wait"
    /\ ai_review_thread = "finished"
    /\ ui_thread' = "event_loop"
    /\ waiting_handler' = "none"
    /\ StartWorker(waiting_handler)
    /\ UNCHANGED <<ui_events, outcomes>>
    /\ UNCHANGED <<core_vars, api_vars, panel_vars, cache_vars>>

\* The GUI thread's event loop handles a queued signal:
\* _on_ai_review_completed or _on_ai_review_failed, then the sender's
\* thread's quit().
HandleSignal ==
    /\ ui_thread = "event_loop"
    /\ ui_events # <<>>
    /\ ui_events' = Tail(ui_events)
    /\ outcomes' = Append(outcomes, Head(ui_events))
    /\ ai_review_btn' = TRUE
    /\ ai_review_file_btn' = TRUE
    /\ ai_review_thread' =
           IF Head(ui_events).worker = ai_review_worker /\ ai_review_thread = "event_loop"
           THEN "finished"
           ELSE ai_review_thread
    /\ UNCHANGED <<ui_thread, waiting_handler, ai_review_worker>>
    /\ UNCHANGED <<core_vars, api_vars, panel_vars, cache_vars>>

\* A queued signal whose sender was replaced, and so may already be
\* destroyed, can be dropped instead of handled.
DropSignal ==
    /\ ui_thread = "event_loop"
    /\ ui_events # <<>>
    /\ Head(ui_events).worker # ai_review_worker
    /\ ui_events' = Tail(ui_events)
    /\ UNCHANGED <<ui_thread, waiting_handler, ai_review_thread, ai_review_worker,
                   ai_review_btn, ai_review_file_btn, outcomes>>
    /\ UNCHANGED <<core_vars, api_vars, panel_vars, cache_vars>>

InitGui ==
    /\ provider = "openai"
    /\ ReviewIdle
    /\ diff = <<EmptyLine>>
    /\ DiffIdle
    /\ ScoreIdle
    /\ WebIdle
    /\ PublishIdle
    /\ GuiIdle
    /\ ApiIdle
    /\ PanelIdle
    /\ CacheIdle

NextGui ==
    \/ OnAIReview
    \/ OnAIReviewCurrentFile
    \/ RunReviewWorker
    \/ WaitReturns
    \/ HandleSignal
    \/ DropSignal

SpecGui == InitGui /\ [][NextGui]_vars

(***************************************************************************)
(* The except branch of OpenAIReviewer._call_api and of                    *)
(* OllamaReviewer._call_api.  Both look only at str(e).lower(), which is   *)
(* modelled by the set of the searched words it contains.                  *)
(***************************************************************************)
Keywords ==
    {"authentication", "unauthorized", "401", "quota", "429", "limit",
     "model", "not found", "connection", "timeout"}

Failure(kind, words) == [kind |-> kind, words |-> words]

\* What the backend call can raise: a timeout whose text is "Request timed
\* out." or names a timeout, a connection failure "Connection error.", and
\* failures answered by the server, whose text is the server's.
Failures ==
    {Failure("timeout", {}), Failure("timeout", {"timeout"}),
     Failure("connection", {"connection"})}
        \cup {Failure(kind, words) :
                 kind \in {"auth", "quota", "model_not_found", "other"},
                 words \in SUBSET Keywords}

call_api_error(error_str) ==
    IF "authentication" \in error_str \/ "unauthorized" \in error_str \/ "401" \in error_str
    THEN "AIAuthError"
    ELSE IF "quota" \in error_str \/ "429" \in error_str \/ "limit" \in error_str
    THEN "AIQuotaError"
    ELSE IF "model" \in error_str /\ "not found" \in error_str
    THEN "AIModelNotFoundError"
    ELSE IF "connection" \in error_str \/ "timeout" \in error_str
    THEN "AIConnectionError"
    ELSE "AIException"

ollama_call_api_error(error_str) ==
    IF "connection" \in error_str \/ "timeout" \in error_str
    THEN "AIConnectionError"
    ELSE "AIException"

CallApiFails ==
    /\ api_raised = "none"
    /\ api_raised' = IF provider = "openai"
                     THEN call_api_error(api_failure.words)
                     ELSE ollama_call_api_error(api_failure.words)
    /\ UNCHANGED api_failure
    /\ UNCHANGED <<core_vars, gui_vars, panel_vars, cache_vars>>

InitCallApi ==
    /\ provider \in {"openai", "ollama"}
    /\ ReviewIdle
    /\ diff = <<EmptyLine>>
    /\ DiffIdle
    /\ ScoreIdle
    /\ WebIdle
    /\ PublishIdle
    /\ GuiIdle
    /\ api_failure \in Failures
    /\ api_raised = "none"
    /\ PanelIdle
    /\ CacheIdle

NextCallApi == CallApiFails

SpecCallApi == InitCallApi /\ [][NextCallApi]_vars

(***************************************************************************)
(* The comment panel (CommentPanel).  A pending comment is a ReviewComment *)
(* object; uid stands for the object's identity.  The rows of the list     *)
(* widget carry the indexes 0..len-1 after every handler, so a row number  *)
(* is an index into local_comments.  Indexes are Python's, from 0.         *)
(***************************************************************************)
MaxComments == 3

Contents == {"first", "second"}

PendingComment(uid, content, comment_type) ==
    [uid |-> uid, content |-> content, comment_type |-> comment_type]

Uids(comments) == {comments[k].uid : k \in 1..Len(comments)}

\* del comments[index]
del(comments, index) ==
    SubSeq(comments, 1, index) \o SubSeq(comments, index + 2, Len(comments))

in_range(index, comments) == 0 <= index /\ index < Len(comments)

SetCodeLocation ==
    /\ editing_index' = None
    /\ editing_comment' = 0
    /\ UNCHANGED <<local_comments, created, publish_failed>>
    /\ UNCHANGED <<core_vars, gui_vars, api_vars, cache_vars>>

OnCommentSubmitted ==
    /\ \E content \in Contents :
        IF ~editing_index.none
        THEN /\ local_comments' =
                    IF in_range(editing_index.v, local_comments)
                    THEN [local_comments EXCEPT ![editing_index.v + 1].content = content]
                    ELSE local_comments
             /\ created' = created
        ELSE /\ created < MaxComments
             /\ local_comments' =
                    Append(local_comments, PendingComment(created + 1, content, "user_comment"))
             /\ created' = created + 1
    /\ editing_index' = None
    /\ editing_comment' = 0
    /\ UNCHANGED publish_failed
    /\ UNCHANGED <<core_vars, gui_vars, api_vars, cache_vars>>

OnDeleteComment ==
    /\ \E comment_index \in 0..(Len(local_comments) - 1) :
        /\ IF editing_index = Int_(comment_index)
           THEN editing_index' = None /\ editing_comment' = 0
           ELSE UNCHANGED <<editing_index, editing_comment>>
        /\ local_comments' = del(local_comments, comment_index)
    /\ UNCHANGED <<created, publish_failed>>
    /\ UNCHANGED <<core_vars, gui_vars, api_vars, cache_vars>>

\* Also _on_edit_comment, which sets the same fields.
OnItemClicked ==
    /\ \E comment_index \in 0..(Len(local_comments) - 1) :
        /\ editing_index' = Int_(comment_index)
        /\ editing_comment' = local_comments[comment_index + 1].uid
    /\ UNCHANGED <<local_comments, created, publish_failed>>
    /\ UNCHANGED <<core_vars, gui_vars, api_vars, cache_vars>>

OnCommentCancelled ==
    /\ editing_index' = None
    /\ editing_comment' = 0
    /\ UNCHANGED <<local_comments, created, publish_failed>>
    /\ UNCHANGED <<core_vars, gui_vars, api_vars, cache_vars>>

\* Each comment is handed to MainWindow._on_publish_comment, which tells the
\* user about a failure and returns nothing; GitLab refuses any of them.
OnPublishAll ==
    /\ local_comments # <<>>
    /\ \E reply \in {"Yes", "No"} :
        IF reply = "Yes"
        THEN /\ publish_failed' \in SUBSET Uids(local_comments)
             /\ local_comments' = <<>>
        ELSE UNCHANGED <<local_comments, publish_failed>>
    /\ UNCHANGED <<editing_index, editing_comment, created>>
    /\ UNCHANGED <<core_vars, gui_vars, api_vars, cache_vars>>

OnPublishSingle ==
    /\ \E comment_index \in 0..(Len(local_comments) - 1) :
        /\ \E success \in BOOLEAN :
               publish_failed' =
                   IF success THEN {} ELSE {local_comments[comment_index + 1].uid}
        /\ local_comments' = del(local_comments, comment_index)
    /\ UNCHANGED <<editing_index, editing_comment, created>>
    /\ UNCHANGED <<core_vars, gui_vars, api_vars, cache_vars>>

OnClear ==
    /\ local_comments' = <<>>
    /\ UNCHANGED <<editing_index, editing_comment, created, publish_failed>>
    /\ UNCHANGED <<core_vars, gui_vars, api_vars, cache_vars>>

RECURSIVE AppendAIComments(_, _, _)
AppendAIComments(comments, uid, n) ==
    IF n = 0
    THEN comments
    ELSE AppendAIComments(Append(comments, PendingComment(uid + 1, "ai", "ai_comment")),
                          uid + 1, n - 1)

OnAIReviewComplete ==
    /\ \E n \in 0..2 :
        /\ created + n <= MaxComments
        /\ local_comments' = AppendAIComments(local_comments, created, n)
        /\ created' = created + n
    /\ UNCHANGED <<editing_index, editing_comment, publish_failed>>
    /\ UNCHANGED <<core_vars, gui_vars, api_vars, cache_vars>>

InitPanel ==
    /\ provider = "openai"
    /\ ReviewIdle
    /\ diff = <<EmptyLine>>
    /\ DiffIdle
    /\ ScoreIdle
    /\ WebIdle
    /\ PublishIdle
    /\ GuiIdle
    /\ ApiIdle
    /\ PanelIdle
    /\ CacheIdle

NextPanel ==
    \/ SetCodeLocation
    \/ OnCommentSubmitted
    \/ OnDeleteComment
    \/ OnItemClicked
    \/ OnCommentCancelled
    \/ OnPublishAll
    \/ OnPublishSingle
    \/ OnClear
    \/ OnAIReviewComplete

SpecPanel == InitPanel /\ [][NextPanel]_vars

(***************************************************************************)
(* ProjectCache.  The cache is the file recent_projects.json; every call   *)
(* loads it and add_recent_project and clear_cache write it back.          *)
(* datetime.now() is a serial number that grows with every call of it.     *)
(* A run starts with no file or with the file that earlier runs left after *)
(* adding 9 or 10 projects.                                                *)
(***************************************************************************)
MAX_RECENT_PROJECTS == 10
MaxClock == 13

ProjectIds == {1, 5, 10, 11, 12}

ValidFile(projects) == [state |-> "valid", recent_projects |-> projects]
CorruptFile == [state |-> "corrupt", recent_projects |-> <<>>]

Project(project_id, last_accessed) ==
    [project_id |-> project_id, last_accessed |-> last_accessed]

\* The file after the projects 1..n were added in that order.
WrittenFile(n) ==
    IF n = 0 THEN AbsentFile ELSE ValidFile([k \in 1..n |-> Project(n + 1 - k, n + 1 - k)])

\* _load_cache().get("recent_projects", []): {} when the file is absent or
\* is no JSON.
load_recent_projects(file) == IF file.state = "valid" THEN file.recent_projects ELSE <<>>

first_n(projects, n) == SubSeq(projects, 1, min(n, Len(projects)))

RECURSIVE without_project(_, _)
without_project(projects, project_id) ==
    IF projects = <<>>
    THEN <<>>
    ELSE IF Head(projects).project_id # project_id
    THEN <<Head(projects)>> \o without_project(Tail(projects), project_id)
    ELSE without_project(Tail(projects), project_id)

\* Variant: an entry of the same project is left in the list.
add_recent_project_keeping_old(projects, project_id, last_accessed) ==
    first_n(<<Project(project_id, last_accessed)>> \o projects, MAX_RECENT_PROJECTS)

\* The list add_recent_project stores.
add_recent_project(projects, project_id, last_accessed) ==
    first_n(<<Project(project_id, last_accessed)>> \o without_project(projects, project_id),
            MAX_RECENT_PROJECTS)

get_recent_projects(file) == first_n(load_recent_projects(file), MAX_RECENT_PROJECTS)

\* _save_cache: the file is written, or open() fails and the file stays, or
\* the write fails after open() has emptied the file.
SaveOutcomes == {"saved", "open_failed", "write_failed"}

save_cache(file, projects, outcome) ==
    IF outcome = "saved" THEN ValidFile(projects)
    ELSE IF outcome = "open_failed" THEN file
    ELSE CorruptFile

Call(op, project_id, returned) == [op |-> op, project_id |-> project_id, returned |-> returned]

AddRecentProject ==
    /\ now < MaxClock
    /\ \E project_id \in ProjectIds, outcome \in SaveOutcomes :
        /\ cache_file' =
               save_cache(cache_file,
                          add_recent_project(load_recent_projects(cache_file), project_id, now + 1),
                          outcome)
        /\ cache_call' = Call("add_recent_project", project_id, outcome = "saved")
    /\ now' = now + 1
    /\ UNCHANGED <<core_vars, gui_vars, api_vars, panel_vars>>

ClearCache ==
    /\ \E outcome \in SaveOutcomes :
        /\ cache_file' = save_cache(cache_file, <<>>, outcome)
        /\ cache_call' = Call("clear_cache", 0, outcome = "saved")
    /\ UNCHANGED now
    /\ UNCHANGED <<core_vars, gui_vars, api_vars, panel_vars>>

InitCache ==
    /\ provider = "openai"
    /\ ReviewIdle
    /\ diff = <<EmptyLine>>
    /\ DiffIdle
    /\ ScoreIdle
    /\ WebIdle
    /\ PublishIdle
    /\ GuiIdle
    /\ ApiIdle
    /\ PanelIdle
    /\ cache_file \in {WrittenFile(n) : n \in {0, MAX_RECENT_PROJECTS - 1, MAX_RECENT_PROJECTS}}
    /\ now = MAX_RECENT_PROJECTS
    /\ cache_call = NoCall

NextCache == AddRecentProject \/ ClearCache

SpecCache == InitCache /\ [][NextCache]_vars

(***************************************************************************)
(* Properties.                                                             *)
(***************************************************************************)
PathOf(idx) == get_display_path(diff_files[idx])
LastCall == calls[Len(calls)]
IsFatalCall(call) == call.outcome.kind \in FatalErrors
HasFindings(idx) == PathOf(idx) \in DOMAIN all_file_reviews

\* The reviews a logged call contributes to the aggregates.
ReviewsOf(call) ==
    IF call.outcome.kind = "text" /\ ~parse_detailed_file_review(call.outcome.text).raised
    THEN parse_detailed_file_review(call.outcome.text).reviews
    ELSE <<>>

\* The aggregates a log yields when the calls of the files in `skip` are left out.
RECURSIVE FlatOver(_, _, _, _)
FlatOver(log, k, bucket, skip) ==
    IF k > Len(log)
    THEN <<>>
    ELSE IF log[k].idx \in skip
    THEN FlatOver(log, k + 1, bucket, skip)
    ELSE Classified(PathOf(log[k].idx), ReviewsOf(log[k]), 1, bucket)
             \o FlatOver(log, k + 1, bucket, skip)

FileReviewsOver(log, skip) ==
    LET kept == {k \in 1..Len(log) : log[k].idx \notin skip /\ ReviewsOf(log[k]) # <<>>}
    IN [p \in {PathOf(log[k].idx) : k \in kept} |->
           ReviewsOf(log[CHOOSE k \in kept : PathOf(log[k].idx) = p])]

\* C1: in a per-file review, a fatal error raised by the backend call of the
\* k-th file leaves review_merge_request as that error, no call follows it,
\* and only files before the k-th have findings recorded.
C1_FatalStopsIteration ==
    \A k \in 1..Len(calls) :
        (calls[k].idx >= 1 /\ IsFatalCall(calls[k])) =>
            /\ k = Len(calls)
            /\ \A m \in 1..Len(calls) : calls[m].idx <= calls[k].idx
            /\ pc = "raised"
            /\ exception = calls[k].outcome.kind
            /\ result = NoResult
            /\ DOMAIN all_file_reviews \subseteq {PathOf(j) : j \in 1..(calls[k].idx - 1)}

\* C1 witness: three files, AIQuotaError on the second call, the first file's
\* findings recorded.
C1_Witness ==
    /\ pc = "raised"
    /\ Len(diff_files) = 3
    /\ Len(calls) = 2
    /\ LastCall.idx = 2
    /\ LastCall.outcome.kind = "AIQuotaError"
    /\ DOMAIN all_file_reviews = {PathOf(1)}

\* C2: text that is not valid JSON for one file gives that file no findings,
\* does not end the review, and leaves the returned findings equal to those
\* of the same review without that file.
C2_MalformedJsonRecoverable ==
    \A k \in 1..Len(calls) :
        (calls[k].idx >= 1 /\ calls[k].outcome = Returns(InvalidJson)) =>
            /\ ~HasFindings(calls[k].idx)
            /\ pc = "raised" => k < Len(calls)
            /\ pc = "done" =>
                /\ result # NoResult
                /\ result.file_reviews = FileReviewsOver(calls, {calls[k].idx})
                /\ result.critical_issues = FlatOver(calls, 1, "critical", {calls[k].idx})
                /\ result.warnings = FlatOver(calls, 1, "warning", {calls[k].idx})
                /\ result.suggestions = FlatOver(calls, 1, "suggestion", {calls[k].idx})

\* C2 witness: three files, the second answered with text that is not JSON,
\* the first and the third with findings, the review done.
C2_Witness ==
    /\ pc = "done"
    /\ Len(calls) = 3
    /\ calls[2].outcome = Returns(InvalidJson)
    /\ DOMAIN result.file_reviews = {PathOf(1), PathOf(3)}
    /\ result.critical_issues # <<>>
    /\ result.warnings # <<>>

\* A step of the loop in which processing the current file raised an
\* exception that is not fatal: the prompt could not be built, the backend
\* raised the generic AIException, or the response had an unexpected shape.
UnexpectedShape(text) ==
    \/ text.json = "array"
    \/ text.json = "object" /\ text.reviews_t = "null"
    \/ text.json = "object" /\ text.reviews_t = "list"
          /\ \E k \in 1..Len(text.items) : ~text.items[k].is_dict

NonFatalException(outcome) ==
    \/ outcome.kind = "AIException"
    \/ outcome.kind = "text" /\ UnexpectedShape(outcome.text)

NonFatalFailureStep ==
    /\ provider = "openai"
    /\ pc = "running"
    /\ file_idx <= Len(diff_files)
    /\ \/ PromptRaises(diff_files[file_idx]) /\ file_idx' # file_idx
       \/ /\ Len(calls') = Len(calls) + 1
          /\ NonFatalException(calls'[Len(calls')].outcome)

\* C3: a non-fatal exception while processing one file does not leave
\* review_merge_request; the aggregates stay as they were and the loop moves
\* to the next file.
C3_RecoverableContinues ==
    [][NonFatalFailureStep =>
          /\ pc' = "running"
          /\ exception' = "none"
          /\ file_idx' = file_idx + 1
          /\ all_file_reviews' = all_file_reviews
          /\ all_issues' = all_issues
          /\ all_warnings' = all_warnings
          /\ all_suggestions' = all_suggestions]_vars

\* C3 witness: a finished review in which a file's call raised a non-fatal
\* exception or its prompt could not be built, with findings kept from a file
\* before it and recorded from a file after it.
C3_Witness ==
    /\ pc = "done"
    /\ \E a, m, b \in 1..Len(diff_files) :
        /\ a < m
        /\ m < b
        /\ PathOf(a) \in DOMAIN result.file_reviews
        /\ PathOf(b) \in DOMAIN result.file_reviews
        /\ \/ PromptRaises(diff_files[m])
           \/ \E k \in 1..Len(calls) :
                 calls[k].idx = m /\ NonFatalException(calls[k].outcome)

\* C4: with either backend, a fatal failure of the provider call reaches the
\* caller as that exception and no AIReviewResult is returned.
C4_FatalPropagates ==
    \A k \in 1..Len(calls) :
        IsFatalCall(calls[k]) =>
            /\ pc = "raised"
            /\ exception = calls[k].outcome.kind
            /\ result = NoResult

\* The new-side line numbers of the addition and context lines of a diff.
NewLineNumbers(diff_content) ==
    LET a == annotate_diff_with_line_numbers(diff_content)
    IN {a.lines[k].new.n : k \in {j \in 1..Len(a.lines) :
                                     a.lines[j].annotated /\ ~a.lines[j].new.dash}}

FileAt(path) == diff_files[CHOOSE j \in 1..Len(diff_files) : PathOf(j) = path]

\* C5 as stated: every line number in the returned per-file findings is null
\* or the new-side number of an addition or context line of that file's diff.
C5_LineNumbersResolved ==
    pc = "done" =>
        \A path \in DOMAIN result.file_reviews :
            \A k \in 1..Len(result.file_reviews[path]) :
                LET n == result.file_reviews[path][k].line_number
                IN \/ n.t = "none"
                   \/ n.t = "int" /\ n.n \in NewLineNumbers(FileAt(path).diff)

\* C5 as amended: every finding in the returned per-file findings carries the
\* line_number exactly as the model returned it (None when the entry has none);
\* it is not checked against the file's diff.
C5_LineNumbersAsReturned ==
    (pc = "done" /\ provider = "openai") =>
        \A c \in 1..Len(calls) :
            LET text == calls[c].outcome.text
                path == PathOf(calls[c].idx)
            IN (calls[c].outcome.kind = "text" /\ text.json = "object"
                    /\ text.reviews_t = "list" /\ text.items # <<>>
                    /\ \A k \in 1..Len(text.items) : text.items[k].is_dict) =>
                   /\ path \in DOMAIN result.file_reviews
                   /\ Len(result.file_reviews[path]) = Len(text.items)
                   /\ \A k \in 1..Len(text.items) :
                          result.file_reviews[path][k].line_number =
                              IF text.items[k].line_number.t = "missing"
                              THEN PyNone
                              ELSE text.items[k].line_number

\* C5 witness: a returned finding whose line number is an integer that is no
\* new-side line number of the file's diff.
C5_Witness ==
    /\ pc = "done"
    /\ \E path \in DOMAIN result.file_reviews :
           \E k \in 1..Len(result.file_reviews[path]) :
               LET n == result.file_reviews[path][k].line_number
               IN n.t = "int" /\ n.n \notin NewLineNumbers(FileAt(path).diff)

\* Position of the hunk header a line belongs to, 0 when none precedes it.
HunkOf(k) ==
    LET hs == {h \in 1..(k - 1) : diff[h].hunk_match.ok}
    IN IF hs = {} THEN 0 ELSE CHOOSE h \in hs : \A g \in hs : g <= h

IsContext(line) ==
    ~line.hunk_match.ok /\ ~IsAddition(line) /\ ~IsDeletion(line)
        /\ startswith(line.chars, <<" ">>)
IsContent(line) ==
    ~line.hunk_match.ok /\ (IsAddition(line) \/ IsDeletion(line) \/ IsContext(line))

DeletionsBefore(k) == Cardinality({j \in (HunkOf(k) + 1)..(k - 1) : IsDeletion(diff[j])})
AdditionsBefore(k) == Cardinality({j \in (HunkOf(k) + 1)..(k - 1) : IsAddition(diff[j])})
ContextBefore(k) == Cardinality({j \in (HunkOf(k) + 1)..(k - 1) : IsContext(diff[j])})

\* C6: under a hunk header @@ -a +c @@, a content line preceded in the hunk by
\* D deletions, P additions and X context lines is numbered old = a + D + X
\* (none for an addition) and new = c + P + X (none for a deletion).
C6_LineCounting ==
    (annotated # NotRun /\ ~annotated.raised) =>
        /\ Len(annotated.lines) = Len(diff)
        /\ \A k \in 1..Len(diff) :
            (IsContent(diff[k]) /\ HunkOf(k) # 0) =>
                LET a == diff[HunkOf(k)].hunk_match.old_start
                    c == diff[HunkOf(k)].hunk_match.new_start
                    old == Num(a + DeletionsBefore(k) + ContextBefore(k))
                    new == Num(c + AdditionsBefore(k) + ContextBefore(k))
                IN /\ annotated.lines[k].annotated
                   /\ annotated.lines[k].old = IF IsAddition(diff[k]) THEN Dash ELSE old
                   /\ annotated.lines[k].new = IF IsDeletion(diff[k]) THEN Dash ELSE new

\* C6 witness: an annotated context line preceded in its hunk by a deletion
\* and an addition.
C6_Witness ==
    /\ annotated # NotRun
    /\ ~annotated.raised
    /\ \E k \in 1..Len(diff) :
        /\ IsContext(diff[k])
        /\ HunkOf(k) # 0
        /\ DeletionsBefore(k) >= 1
        /\ AdditionsBefore(k) >= 1
        /\ annotated.lines[k].annotated

\* C7: annotating a diff never raises, whatever the text, and a '@@' line that
\* is no valid hunk header is emitted as a header line with both counters left
\* as they were.
C7_ParserNeverRaises ==
    /\ ~annotated.raised
    /\ line_info # <<>> =>
          \A k \in 1..Len(diff) :
              diff[k] = BadHunkLine => line_info[k].line_type = "header"
    /\ annotated # NotRun =>
          \A k \in 1..Len(annotated.lines) :
              diff[k] = BadHunkLine => ~annotated.lines[k].annotated

\* C8: the score lies in 1..10, does not grow when the number of critical
\* issues or of warnings grows, is 10 for no issues and no warnings, and is 1
\* for five issues.
C8_ScoreMonotoneClamped ==
    ~score.none =>
        /\ score.v \in 1..10
        /\ \A i \in issues..MaxCount : \A w \in warnings..MaxCount :
               calculate_score(i, w) <= score.v
        /\ (issues = 0 /\ warnings = 0) => score.v = 10
        /\ issues = 5 => score.v = 1

\* C8 witness: the score computed for five issues.
C8_Witness ==
    /\ ~score.none
    /\ issues = 5
    /\ score.v = 1

\* C9: in every returned result, issues_count is the number of critical
\* issues and suggestions_count the number of warnings plus suggestions.
C9_CountsMatchLists ==
    pc = "done" =>
        /\ result.issues_count = Len(result.critical_issues)
        /\ result.suggestions_count = Len(result.warnings) + Len(result.suggestions)

\* C9 witness: a returned result with critical issues, warnings and
\* suggestions.
C9_Witness ==
    /\ pc = "done"
    /\ Len(result.critical_issues) >= 2
    /\ Len(result.warnings) >= 1
    /\ Len(result.suggestions) >= 1

C11_QuickModeSingleCall ==
    quick_mode =>
        /\ Len(calls) <= 1
        /\ (pc = "done" /\ \A k \in 1..Len(calls) : calls[k].outcome.kind = "text") =>
            /\ Len(calls) = 1
            /\ result.overall_score = 5
            /\ result.file_reviews = <<>>
            /\ result.critical_issues = <<>>
            /\ result.warnings = <<>>
            /\ result.suggestions = <<>>

\* An entry of a response whose line_number is a string that is not a number.
IsOddLine(item) ==
    item.is_dict /\ item.line_number.t = "str" /\ int_of_digits(item.line_number.s).none

JobPath(job, idx) == get_display_path(job.diff_files[idx])

\* C12: a review entry whose line_number is a non-numeric string is kept as
\* a finding with a null line number, and no error results from it, neither
\* in the review nor when the result is converted into comments.
C12_OddLineKeptAsNull ==
    \A j \in Jobs : \A c \in 1..Len(jobs[j].calls) :
        LET job == jobs[j]
            call == job.calls[c]
            items == call.outcome.text.items
        IN (call.idx >= 1 /\ call.outcome.kind = "text") =>
               \A k \in 1..Len(items) :
                   IsOddLine(items[k]) =>
                       /\ JobPath(job, call.idx) \in DOMAIN job.all_file_reviews
                       /\ job.all_file_reviews[JobPath(job, call.idx)][k].line_number = PyNone
                       /\ job.ending # "Exception"
                       /\ job.pc = "ended" => review_tasks[job.task_id].status = "completed"

Severities == {PyStr("critical"), PyStr("warning"), PyStr("suggestion")}

\* C13: every finding stored in the result has severity critical, warning
\* or suggestion; a missing or unrecognized severity is stored as suggestion.
C13_SeverityCoerced ==
    \A path \in DOMAIN all_file_reviews :
        \A k \in 1..Len(all_file_reviews[path]) :
            all_file_reviews[path][k].severity \in Severities

\* The number of entries with a non-empty description the logged calls parsed.
RECURSIVE Described(_, _)
Described(reviews, k) ==
    IF k > Len(reviews) THEN 0
    ELSE (IF truthy(reviews[k].description) THEN 1 ELSE 0) + Described(reviews, k + 1)

RECURSIVE DescribedIn(_, _)
DescribedIn(log, k) ==
    IF k > Len(log) THEN 0 ELSE Described(ReviewsOf(log[k]), 1) + DescribedIn(log, k + 1)

AllDescribed(findings) == \A k \in 1..Len(findings) : truthy(findings[k].description)

\* C14: a review entry whose description is empty or missing is dropped
\* during parsing: it is in no per-file list and in none of the flat lists,
\* and the counts of the result do not include it.
C14_EmptyDescriptionDropped ==
    /\ \A path \in DOMAIN all_file_reviews : AllDescribed(all_file_reviews[path])
    /\ AllDescribed(all_issues)
    /\ AllDescribed(all_warnings)
    /\ AllDescribed(all_suggestions)
    /\ (pc = "done" /\ provider = "openai") =>
           result.issues_count + result.suggestions_count = DescribedIn(calls, 1)

TaskOf(j) == review_tasks[jobs[j].task_id]

\* C15: a task started through the web API is registered as running before
\* its background job runs, and once the job has ended, whatever happened in
\* it, the task's status is completed or error, never running.
C15_TaskEndsCompletedOrError ==
    \A j \in Jobs :
        jobs[j].pc # "none" =>
            /\ jobs[j].task_id \in DOMAIN review_tasks
            /\ jobs[j].pc \in {"queued", "reviewing"} => TaskOf(j).status = "running"
            /\ jobs[j].pc = "ended" =>
                /\ TaskOf(j).status \in {"completed", "error"}
                /\ TaskOf(j).status = "completed" <=> jobs[j].ending = "ok"

\* C15 witness: one job ended by an exception raised while converting the
\* result, its task polled as failed; the other job ended well.
C15_Witness ==
    /\ jobs[1].pc = "ended"
    /\ jobs[1].ending = "Exception"
    /\ TaskOf(1).status = "error"
    /\ jobs[2].pc = "ended"
    /\ jobs[2].ending = "ok"
    /\ TaskOf(2).status = "completed"
    /\ polled = [task_id |-> jobs[1].task_id, http |-> 500, status |-> "error"]

\* The result a job's own backend calls and own files yield, recomputed
\* from the log of its calls.
RECURSIVE JobFlatOver(_, _, _)
JobFlatOver(job, k, bucket) ==
    IF k > Len(job.calls)
    THEN <<>>
    ELSE Classified(JobPath(job, job.calls[k].idx), ReviewsOf(job.calls[k]), 1, bucket)
             \o JobFlatOver(job, k + 1, bucket)

RECURSIVE JobKeysOver(_, _)
JobKeysOver(job, k) ==
    IF k > Len(job.calls)
    THEN <<>>
    ELSE IF ReviewsOf(job.calls[k]) = <<>>
    THEN JobKeysOver(job, k + 1)
    ELSE <<JobPath(job, job.calls[k].idx)>> \o JobKeysOver(job, k + 1)

OwnResult(job) ==
    IF job.provider = "ollama"
    THEN OllamaResult(job.calls[1].outcome)
    ELSE LET kept == {k \in 1..Len(job.calls) : ReviewsOf(job.calls[k]) # <<>>}
             critical == JobFlatOver(job, 1, "critical")
             warning == JobFlatOver(job, 1, "warning")
             suggestion == JobFlatOver(job, 1, "suggestion")
         IN [provider |-> "openai",
             summary |-> build_overall_summary(get_merge_request(job.mr_iid),
                                               get_merge_request_diffs(job.mr_iid),
                                               Len(critical), Len(warning), Len(suggestion),
                                               job.total_usage),
             overall_score |-> calculate_score(Len(critical), Len(warning)),
             issues_count |-> Len(critical),
             suggestions_count |-> Len(warning) + Len(suggestion),
             file_reviews |->
                 [path \in {JobPath(job, job.calls[k].idx) : k \in kept} |->
                     ReviewsOf(job.calls[CHOOSE k \in kept :
                                            JobPath(job, job.calls[k].idx) = path])],
             file_review_keys |-> JobKeysOver(job, 1),
             critical_issues |-> critical,
             warnings |-> warning,
             suggestions |-> suggestion]

OwnPaths(job) ==
    {get_display_path(get_merge_request_diffs(job.mr_iid)[k]) :
        k \in 1..Len(get_merge_request_diffs(job.mr_iid))}

\* The entry of every task is the one its own job accounts for.
OwnEntries ==
    \A j \in Jobs :
        jobs[j].pc # "none" =>
            /\ jobs[j].task_id \in DOMAIN review_tasks
            /\ jobs[j].pc # "ended" => TaskOf(j) = RunningTask
            /\ (jobs[j].pc = "ended" /\ jobs[j].ending # "ok") =>
                   TaskOf(j) = ErrorTask(jobs[j].ending)
            /\ (jobs[j].pc = "ended" /\ jobs[j].ending = "ok") =>
                /\ TaskOf(j) = CompletedTask(Converted(OwnResult(jobs[j])).response)
                /\ \A k \in 1..Len(TaskOf(j).response.comments) :
                       TaskOf(j).response.comments[k].file_path \in OwnPaths(jobs[j])

\* An entry changes only in the step that ends its own job.
OwnWrites ==
    \A task_id \in DOMAIN review_tasks :
        /\ task_id \in DOMAIN review_tasks'
        /\ review_tasks'[task_id] # review_tasks[task_id] =>
               \E j \in Jobs :
                   /\ jobs[j].task_id = task_id
                   /\ jobs[j].pc # "ended"
                   /\ jobs'[j].pc = "ended"
                   /\ \A i \in Jobs \ {j} : jobs'[i] = jobs[i]

\* C16: when two reviews run concurrently, under every interleaving the
\* result recorded for each holds exactly the findings produced from its own
\* files, and neither task's entry is overwritten by the other review.
C16_NoInterference == []OwnEntries /\ [][OwnWrites]_vars

\* C16 witness: the review of merge request 1 has ended with comments while
\* the review of merge request 2, started before it, is between its two
\* files with findings of its own.
C16_Witness ==
    /\ jobs[1].mr_iid = 2
    /\ jobs[1].provider = "openai"
    /\ jobs[1].pc = "reviewing"
    /\ jobs[1].file_idx = 2
    /\ jobs[1].all_file_reviews # <<>>
    /\ jobs[2].mr_iid = 1
    /\ jobs[2].provider = "openai"
    /\ jobs[2].pc = "ended"
    /\ jobs[2].ending = "ok"
    /\ TaskOf(2).response.comments # <<>>
    /\ TaskOf(1) = RunningTask

\* The summary block made of the title, the branches, the number of files
\* and the three counts of the result, and of nothing else.
CountsSummary ==
    [NoSummary EXCEPT !.kind = "overall", !.title = mr.title,
                      !.source_branch = mr.source_branch,
                      !.target_branch = mr.target_branch,
                      !.files_changed = Len(diff_files),
                      !.critical_issues = result.issues_count,
                      !.warnings = Len(result.warnings),
                      !.suggestions = Len(result.suggestions)]

IsGeneral(c) == c.line_number = PyNone \/ c.line_number = PyInt(0)

\* GitLab can anchor the comment's line in the diff.
CanAnchor(c) ==
    /\ ~int_of_line(c.line_number).none
    /\ Anchorable(position_type(c.line_type), int_of_line(c.line_number).v)

\* No request failed for a reason other than the line.
GitLabHealthy == \A k \in 1..Len(requests) : requests[k].answer # "error"

\* C18: publishing a comment whose line number GitLab cannot anchor never
\* loses the comment: it is posted as a note that is not tied to a line,
\* with the same body and the file and line in its text; a comment whose
\* line number is null or 0 is posted as a general note.
C18_UnanchoredPostedAsNote ==
    (published # "none" /\ GitLabHealthy) =>
        /\ IsGeneral(comment) =>
               /\ requests = <<NoteRequest(FALSE, "", None, comment.content, "created")>>
               /\ published = "success"
        /\ (~IsGeneral(comment) /\ ~CanAnchor(comment)) =>
               /\ published = "success"
               /\ \E k \in 1..Len(requests) :
                      /\ requests[k].api = "notes"
                      /\ requests[k].answer = "created"
                      /\ requests[k].located
                      /\ requests[k].file_path = comment.file_path
                      /\ requests[k].body = comment.content

abs(x) == IF x >= 0 THEN x ELSE -x

\* q is the real number twice / 2 truncated toward zero.
IsTruncatedHalf(q, twice) ==
    /\ 2 * abs(q) <= abs(twice)
    /\ abs(twice) < 2 * abs(q) + 2
    /\ q * twice >= 0

\* C19: for all numbers i of critical issues and w of warnings, and any
\* number of suggestions, the score is 10 - 2*i - 0.5*w truncated to an
\* integer and then clamped to [1, 10]; the suggestions have no effect.
C19_ScoreFormula ==
    ~score.none =>
        \E q \in -(5 * MaxCount)..10 :
            /\ IsTruncatedHalf(q, 20 - 4 * issues - warnings)
            /\ score.v = (IF q < 1 THEN 1 ELSE IF q > 10 THEN 10 ELSE q)

\* C19 witness: one issue, three warnings and seven suggestions score 6,
\* which is 6.5 truncated.
C19_Witness ==
    /\ ~score.none
    /\ issues = 1
    /\ warnings = 3
    /\ suggestions = 7
    /\ score.v = 6

\* The position in diff_files of the file with this display path.
IdxOfPath(path) == CHOOSE i \in 1..Len(diff_files) : PathOf(i) = path

\* The entries of a flat list that belong to one file, in the list's order.
OfFile(findings, path) == SelectSeq(findings, LAMBDA f : f.location = path)

\* A flat list runs through the files in input order and, within a file,
\* holds that file's findings of the bucket in the order they were parsed.
InInputOrder(findings, bucket) ==
    /\ \A a, b \in 1..Len(findings) :
           a < b => IdxOfPath(findings[a].location) <= IdxOfPath(findings[b].location)
    /\ \A path \in DOMAIN all_file_reviews :
           OfFile(findings, path) = Classified(path, all_file_reviews[path], 1, bucket)
    /\ \A k \in 1..Len(findings) : findings[k].location \in DOMAIN all_file_reviews

\* C20: the backend calls of a review without quick mode are issued one at a
\* time in the input order of the diff files, each after the previous file
\* was fully processed; so the keys of the per-file findings and the entries
\* of critical issues, warnings and suggestions are in input-file order and,
\* within a file, in the order the findings were parsed.
C20_InputOrder ==
    (~quick_mode /\ pc # "idle") =>
        /\ \A k \in 1..(Len(calls) - 1) : calls[k].idx < calls[k + 1].idx
        /\ \A k \in 1..Len(calls) : calls[k].idx < file_idx \/ pc = "raised"
        /\ all_file_reviews = FileReviewsOver(calls, {})
        /\ \A a, b \in 1..Len(all_file_review_keys) :
               a < b => IdxOfPath(all_file_review_keys[a]) < IdxOfPath(all_file_review_keys[b])
        /\ {all_file_review_keys[k] : k \in 1..Len(all_file_review_keys)}
               = DOMAIN all_file_reviews
        /\ InInputOrder(all_issues, "critical")
        /\ InInputOrder(all_warnings, "warning")
        /\ InInputOrder(all_suggestions, "suggestion")
        /\ (pc = "done" /\ provider = "openai") =>
               /\ result.file_review_keys = all_file_review_keys
               /\ result.file_reviews = all_file_reviews
               /\ result.critical_issues = all_issues
               /\ result.warnings = all_warnings
               /\ result.suggestions = all_suggestions

\* C20 witness: a review without quick mode of three files, each with
\* findings, the first with two critical issues, done.
C20_Witness ==
    /\ ~quick_mode
    /\ pc = "done"
    /\ Len(calls) = 3
    /\ result.file_review_keys = <<PathOf(1), PathOf(2), PathOf(3)>>
    /\ Len(OfFile(result.critical_issues, PathOf(1))) = 2
    /\ Len(result.critical_issues) >= 4
    /\ result.suggestions # <<>>

(***************************************************************************)
(* Line numbers per diff line, as None or an int, from the annotator's     *)
(* bracket displays and from the viewer's line_info table.                 *)
(***************************************************************************)
DisplayNumber(display, shown) ==
    IF shown /\ ~display.dash THEN Int_(display.n) ELSE None

AnnotatedOld ==
    [k \in 1..Len(annotated.lines) |->
        DisplayNumber(annotated.lines[k].old, annotated.lines[k].annotated)]
AnnotatedNew ==
    [k \in 1..Len(annotated.lines) |->
        DisplayNumber(annotated.lines[k].new, annotated.lines[k].annotated)]
ViewerOld == [k \in 1..Len(line_info) |-> line_info[k].old]
ViewerNew == [k \in 1..Len(line_info) |-> line_info[k].new]

\* The numbers of one side grow strictly from line to line inside a hunk.
HunkIncreasing(numbers) ==
    \A j, k \in 1..Len(numbers) :
        (j < k /\ HunkOf(j) = HunkOf(k) /\ ~numbers[j].none /\ ~numbers[k].none) =>
            numbers[j].v < numbers[k].v

\* The first numbered line under a hunk header carries the header's start
\* value of that side.
FirstNumbered(numbers, k) ==
    /\ ~numbers[k].none
    /\ HunkOf(k) # 0
    /\ \A j \in (HunkOf(k) + 1)..(k - 1) : numbers[j].none

ResetToOldStart(numbers) ==
    \A k \in 1..Len(numbers) :
        FirstNumbered(numbers, k) => numbers[k].v = diff[HunkOf(k)].hunk_match.old_start
ResetToNewStart(numbers) ==
    \A k \in 1..Len(numbers) :
        FirstNumbered(numbers, k) => numbers[k].v = diff[HunkOf(k)].hunk_match.new_start

\* C21: inside one hunk the new-side numbers given to addition and context
\* lines and the old-side numbers given to deletion and context lines grow
\* strictly in hunk order, in the annotator and in the viewer, and the first
\* numbered line under a hunk header carries that header's start value.
C21_HunkNumbersIncrease ==
    /\ (annotated # NotRun /\ ~annotated.raised) =>
           /\ HunkIncreasing(AnnotatedOld)
           /\ HunkIncreasing(AnnotatedNew)
           /\ ResetToOldStart(AnnotatedOld)
           /\ ResetToNewStart(AnnotatedNew)
    /\ line_info # <<>> =>
           /\ HunkIncreasing(ViewerOld)
           /\ HunkIncreasing(ViewerNew)
           /\ ResetToOldStart(ViewerOld)
           /\ ResetToNewStart(ViewerNew)

\* C21 witness: a hunk @@ -3 +7 @@ followed by a deletion, an addition and a
\* context line, numbered by the annotator and by the viewer.
C21_Witness ==
    /\ diff = <<HunkLine(3, 7), DeletionLine, AdditionLine, ContextLine>>
    /\ annotated # NotRun
    /\ ~annotated.raised
    /\ line_info # <<>>
    /\ AnnotatedOld[2] = Int_(3) /\ AnnotatedOld[4] = Int_(4)
    /\ AnnotatedNew[3] = Int_(7) /\ AnnotatedNew[4] = Int_(8)
    /\ ViewerOld[4] = Int_(4) /\ ViewerNew[4] = Int_(8)

\* The file-header lines of a diff that the model's texts contain.
IsFileHeader(line) == line \in {NewPathLine, OldPathLine}

Without(seq, k) == SubSeq(seq, 1, k - 1) \o SubSeq(seq, k + 1, Len(seq))

\* The annotator emits a file-header line as it is and numbers the other
\* lines as it numbers them in the text without that line.
AnnotatorSkipsFileHeaders ==
    (annotated # NotRun /\ ~annotated.raised) =>
        \A k \in 1..Len(diff) :
            IsFileHeader(diff[k]) =>
                /\ ~annotated.lines[k].annotated
                /\ Without(annotated.lines, k)
                       = annotate_diff_with_line_numbers(Without(diff, k)).lines

\* The viewer gives a file-header line no number and numbers the other
\* lines as it numbers them in the text without that line.
ViewerSkipsFileHeaders ==
    line_info # <<>> =>
        \A k \in 1..Len(diff) :
            IsFileHeader(diff[k]) =>
                /\ line_info[k].old = None
                /\ line_info[k].new = None
                /\ Without(line_info, k) = load_diff_file(Without(diff, k))

\* C22: a '---' or '+++' file-header line is emitted with both line numbers
\* null and leaves both counters as they were, so the numbers of the other
\* lines are the same as without it, in the viewer and in the annotator.
C22_FileHeadersLeaveCounters ==
    /\ ViewerSkipsFileHeaders
    /\ AnnotatorSkipsFileHeaders

\* The GUI thread is inside QThread.wait() while run_review is executing.
WaitsForReview == ui_thread = "wait" /\ ai_review_thread = "reviewing"

\* An outcome is handled by the GUI thread only as the signal at the head of
\* its event queue.
OutcomeBySignal ==
    outcomes' # outcomes =>
        /\ ui_events # <<>>
        /\ Head(ui_events).signal \in Signals
        /\ outcomes' = Append(outcomes, Head(ui_events))

\* C23: in every sequence of whole-MR and current-file review requests the
\* GUI thread never waits for a running review to finish, and a review's
\* outcome reaches it only as the worker's review_completed or review_failed
\* signal.
C23_UiNeverWaitsForReview == [](~WaitsForReview) /\ [][OutcomeBySignal]_vars

\* The four fatal categories in the order auth, quota, model-not-found,
\* connection, with the words that match them.
Categories == <<"AIAuthError", "AIQuotaError", "AIModelNotFoundError", "AIConnectionError">>

Matches(category, words) ==
    CASE category = "AIAuthError" -> words \cap {"authentication", "unauthorized", "401"} # {}
      [] category = "AIQuotaError" -> words \cap {"quota", "429", "limit"} # {}
      [] category = "AIModelNotFoundError" -> {"model", "not found"} \subseteq words
      [] category = "AIConnectionError" -> words \cap {"connection", "timeout"} # {}

FirstMatching(words) ==
    LET hits == {k \in 1..Len(Categories) : Matches(Categories[k], words)}
    IN IF hits = {}
       THEN "AIException"
       ELSE Categories[CHOOSE k \in hits : \A h \in hits : k <= h]

\* The OpenAI adapter raises the first matching category's exception.
RaisesFirstMatching ==
    (provider = "openai" /\ api_raised # "none") =>
        /\ api_raised \in FatalErrors \cup {"AIException"}
        /\ api_raised = FirstMatching(api_failure.words)

\* C24: a failure of the OpenAI backend call is re-raised as the exception
\* of the first matching category in the order auth, quota, model-not-found,
\* connection, else as AIException, and every connection or timeout failure
\* is re-raised as AIConnectionError, which is fatal.
C24_ErrorsClassified ==
    /\ RaisesFirstMatching
    /\ (provider = "openai" /\ api_raised # "none"
            /\ api_failure.kind \in {"connection", "timeout"}) =>
           /\ api_raised = "AIConnectionError"
           /\ api_raised \in FatalErrors

\* C25: for every diff text the annotator and the viewer give each
\* addition, deletion and context line the same old and new line numbers,
\* also when the text holds empty lines, '---' or '+++' lines,
\* '\ No newline at end of file' lines or several hunks.
C25_AnnotatorMatchesViewer ==
    (annotated # NotRun /\ ~annotated.raised /\ line_info # <<>>) =>
        \A k \in 1..Len(diff) :
            IsContent(diff[k]) =>
                /\ AnnotatedOld[k] = ViewerOld[k]
                /\ AnnotatedNew[k] = ViewerNew[k]

\* A step changes the content of a pending comment only if that comment is
\* the one selected for editing.
OnlySelectedChanges ==
    \A a \in 1..Len(local_comments) : \A b \in 1..Len(local_comments') :
        (local_comments[a].uid = local_comments'[b].uid
             /\ local_comments[a].content # local_comments'[b].content) =>
            local_comments[a].uid = editing_comment

\* C26: once a comment is selected for editing, a submit changes the content
\* of that comment and of no other, whatever deletions, publications,
\* clearings or AI-review completions came in between; when the selected
\* comment is gone, no comment changes.
C26_EditsSelectedComment == [][OnlySelectedChanges]_vars

\* C27: a publish action takes a comment out of the pending list only if
\* GitLab accepted it: the comments refused in a 'publish all' or a 'publish
\* single' are still pending after it.
C27_FailedStaysPending ==
    [][publish_failed' # publish_failed => publish_failed' \subseteq Uids(local_comments')]_vars

\* What the backend call made for a file yielded, empty when none was made.
FindingsOf(idx) ==
    LET made == {k \in 1..Len(calls) : calls[k].idx = idx}
    IN IF made = {} THEN <<>> ELSE ReviewsOf(calls[CHOOSE k \in made : TRUE])

RECURSIVE StoredFrom(_)
StoredFrom(idx) ==
    IF idx > Len(diff_files)
    THEN 0
    ELSE (IF PathOf(idx) \in DOMAIN result.file_reviews
          THEN Len(result.file_reviews[PathOf(idx)])
          ELSE 0) + StoredFrom(idx + 1)

DistinctPaths ==
    \A a, b \in 1..Len(diff_files) : a # b => PathOf(a) # PathOf(b)

\* C28: in the result of a review without quick mode over files with
\* pairwise distinct display paths, the per-file findings hold as many
\* findings as critical_issues, warnings and suggestions hold entries, and a
\* display path is a key of the per-file findings exactly when its file
\* produced at least one finding.
C28_FindingsPartitioned ==
    (pc = "done" /\ provider = "openai" /\ ~quick_mode /\ DistinctPaths) =>
        /\ DOMAIN result.file_reviews \subseteq {PathOf(idx) : idx \in 1..Len(diff_files)}
        /\ StoredFrom(1) = Len(result.critical_issues) + Len(result.warnings)
                               + Len(result.suggestions)
        /\ \A idx \in 1..Len(diff_files) :
               PathOf(idx) \in DOMAIN result.file_reviews <=> FindingsOf(idx) # <<>>

\* C28 witness: a finished review without quick mode of three files of which
\* one has no findings and the others have five between them, one of them
\* with a severity that is none of the three names.
C28_Witness ==
    /\ pc = "done"
    /\ provider = "openai"
    /\ ~quick_mode
    /\ Len(diff_files) = 3
    /\ Cardinality(DOMAIN result.file_reviews) = 2
    /\ StoredFrom(1) >= 4
    /\ \E idx \in 1..3 : \E k \in 1..Len(FindingsOf(idx)) :
           /\ ~IsSeverity(FindingsOf(idx)[k], "critical")
           /\ ~IsSeverity(FindingsOf(idx)[k], "warning")
           /\ ~IsSeverity(FindingsOf(idx)[k], "suggestion")

IsFinal(task) == task.status \in {"completed", "error"}

\* A finished task's entry stays as it is.
FinalStays ==
    \A task_id \in DOMAIN review_tasks :
        IsFinal(review_tasks[task_id]) =>
            /\ task_id \in DOMAIN review_tasks'
            /\ review_tasks'[task_id] = review_tasks[task_id]

\* A poll of a finished task answers with that task's status.
FinalPolled ==
    (polled' # polled /\ polled'.task_id \in DOMAIN review_tasks
         /\ IsFinal(review_tasks[polled'.task_id])) =>
        /\ polled'.status = review_tasks[polled'.task_id].status
        /\ polled'.http = IF polled'.status = "completed" THEN 200 ELSE 500

\* The last answer, when it told of a finished task, is still what the table
\* holds; an id the table does not hold was answered with 404.
AnswerStands ==
    polled # NoPoll =>
        /\ polled.status \in {"completed", "error"} =>
               /\ polled.task_id \in DOMAIN review_tasks
               /\ review_tasks[polled.task_id].status = polled.status
        /\ polled.task_id \notin DOMAIN review_tasks => polled.http = 404

\* C29: a web review task that is completed or failed never changes again,
\* every later poll of its id gives that same outcome, and an id that was
\* never issued is always answered as not found.
C29_FinalTaskIsStable == [][FinalStays /\ FinalPolled]_vars /\ []AnswerStands

\* C29 witness: the first job has failed, the second has completed and was
\* polled as completed.
C29_Witness ==
    /\ jobs[1].pc = "ended"
    /\ TaskOf(1).status = "error"
    /\ jobs[2].pc = "ended"
    /\ TaskOf(2).status = "completed"
    /\ polled = [task_id |-> jobs[2].task_id, http |-> 200, status |-> "completed"]

\* An id that was never issued has been polled.
C29_WitnessUnknown ==
    /\ jobs[2].pc = "ended"
    /\ polled.task_id \notin DOMAIN review_tasks
    /\ polled.http = 404

\* C30: after any add_recent_project and clear_cache calls the stored list
\* of recent projects has at most 10 entries, no two of the same project,
\* ordered from the most recently added to the least recently added, and the
\* project of an add_recent_project call that was saved is the first.
C30_RecentProjects ==
    LET stored == load_recent_projects(cache_file) IN
    /\ Len(stored) <= 10
    /\ get_recent_projects(cache_file) = stored
    /\ \A a, b \in 1..Len(stored) :
           a < b => /\ stored[a].project_id # stored[b].project_id
                    /\ stored[a].last_accessed > stored[b].last_accessed
    /\ (cache_call.op = "add_recent_project" /\ cache_call.returned) =>
           /\ stored # <<>>
           /\ stored[1] = Project(cache_call.project_id, now)

\* C30 witness: a full list to which a project already in it and then two new
\* projects were added, so that the two oldest entries were dropped.
C30_Witness ==
    LET stored == load_recent_projects(cache_file) IN
    /\ cache_call = Call("add_recent_project", 12, TRUE)
    /\ Len(stored) = 10
    /\ stored[1].project_id = 12
    /\ stored[2].project_id = 11
    /\ stored[3].project_id = 5
    /\ \A k \in 1..10 : stored[k].project_id \notin {1, 2}

====
